---- MODULE Spec2Model ----
(***************************************************************************)
(* A model of linkedin_scraper: the async scrapers and their progress      *)
(* callbacks (scrapers/*.py, core/utils.py, callbacks.py), the selenium    *)
(* login flow (actions.py) and the work-time parser of the person scraper. *)
(***************************************************************************)
EXTENDS Integers, Sequences, FiniteSets, TLC

VARIABLES
    \* ---- one scrape invocation (scrapers/*.py)
    scraper,      \* which entry point runs
    urlValid,     \* the record's linkedin_url passes the model's validator
    pc,           \* index of the next statement of the entry point
    events,       \* notifications delivered to the callback, in order
    outcome,      \* running, returned, or the exception that reached the caller
    caught,       \* exception held by PersonScraper.scrape's except clause
    page,         \* what the browser page shows now
    name,         \* value of the local variable `name` of PersonScraper.scrape
    nameRead,     \* how the read of the h1 element ended
    accIdx,       \* index into accomplishment_sections
    cbFailures,   \* callback methods that have raised so far
    lastCheck,    \* what the last detect_rate_limit call did
    rateHit,      \* history: a navigation landed on a rate-limited page
    navAfterHit,  \* history: a navigation was made after such a landing
    authFailed,   \* history: ensure_logged_in found the page not logged in
    workAfterAuth, \* history: navigation or extraction after authFailed
    \* ---- one call of actions.login (actions.py)
    interactive,  \* the `interactive` argument
    lpc,          \* position in login / _handle_post_login_scenarios
    curUrl,       \* current_url as read at line 98 (never re-read)
    src,          \* what driver.page_source contains now
    entryKind,    \* which challenge branch the page took: none, security, captcha
    userInput,    \* how input() ended: none yet, enter, eof
    sleptTimeout, \* time.sleep(timeout) was executed
    handlerRaised,\* exception raised by _handle_post_login_scenarios
    loginRaised,  \* exception that reached the caller of login()
    \* ---- one call of PersonScraper._parse_work_times (scrapers/person.py)
    wtParts,      \* how the argument was put together: form, a, b, d
    wtInput,      \* the work_times argument, a sequence of characters
    wtResult,     \* the returned (from_date, to_date, duration)
    wtDone,       \* the call has returned
    \* ---- one call of PersonScraper._parse_experience_item (scrapers/person.py)
    expItem,      \* the list item, as the locators of the code see it
    expResult,    \* what the call returned: none, one record, or a list
    expDone,      \* the call has returned
    \* ---- one call of CompanyScraper._parse_dl_definition_list (scrapers/company.py)
    dlPairs,      \* the dt/dd pairs of dl.overflow-hidden, in document order
    dlIdx,        \* how many dt elements the loop has handled
    overview,     \* the overview dict
    dlPrev,       \* history: the overview dict before the last iteration
    \* ---- one record of models/*.py: built, converted, built again
    mdlCls,       \* the class called: Person, Company or Job
    mdlKwargs,    \* the keyword arguments of the call
    mdlRec,       \* the record r, or the ValidationError the call raised
    mdlDict,      \* r.to_dict()
    mdlJson,      \* r.to_json()
    mdlFromDict,  \* the record built from r.to_dict()
    mdlFromJson,  \* the record built from json.loads(r.to_json())
    \* ---- the URLs of one CompanyScraper.scrape call (scrapers/company.py)
    cuUrl,        \* the linkedin_url argument
    cuBase,       \* base_url
    cuAbout,      \* about_url
    cuCompany,    \* the Company built, or the ValidationError raised
    cuPc,         \* start, normalized, done
    \* ---- one call of CompanyPostsScraper._scrape_posts (scrapers/company_posts.py)
    psLimit,      \* the limit argument
    psPosts,      \* posts
    psScrolls,    \* scroll_count
    psScrolled,   \* history: the last pass of the loop scrolled
    psScrollFailed, \* history: a scroll raised inside _scroll_for_more_posts
    psResult,     \* the returned list
    psPc,         \* loop, done
    \* ---- one call of JobSearchScraper._extract_job_urls (scrapers/job_search.py)
    jsLimit,      \* the limit argument
    jsLinks,      \* href of each link found by the locator, in order
    jsIdx,        \* links handled so far
    jsUrls,       \* job_urls
    jsSeen,       \* seen_urls
    jsPc,         \* loop, done
    \* ---- one BrowserManager or PersistentBrowserManager (core/browser.py)
    bmKind,       \* the class of the manager
    bmPlaywright, \* _playwright is not None
    bmBrowser,    \* _browser is not None
    bmContext,    \* _context is not None
    bmPage,       \* _page is not None
    bmStatus,     \* history: new, started, closed, failed (start() raised)
    bmDirExists,  \* user_data_dir exists on disk
    bmLast,       \* history: the last call, the status it was made in, its result
    \* ---- migrate_session_to_profile (core/browser.py)
    mgSessionExists, \* session_path.exists()
    mgPc,            \* check, start_old, load, close_old, start_new, fill, inner_except, outer_except, done
    mgOld,           \* handles of old_browser
    mgNew,           \* handles of new_browser
    mgOldStarted,    \* history: old_browser.start() returned
    mgNewStarted,    \* history: new_browser.start() returned
    mgResult,        \* none, True, False, FileNotFoundError, NetworkError
    mgCookies,       \* the session file holds cookies
    mgImported,      \* add_cookies has put them into the new profile
    \* ---- retry_async (core/utils.py)
    rtFunc,    \* the wrapped coroutine: generic, safe_click
    rtN,       \* max_attempts
    rtB,       \* backoff
    rtAttempt, \* attempt
    rtRaw,     \* history: what each invocation met
    rtLog,     \* history: how each invocation of the coroutine ended
    rtWaits,   \* history: the arguments of asyncio.sleep
    rtLast,    \* last_exception
    rtResult,  \* how the call of the wrapper ended
    rtPc,      \* loop, done
    \* ---- wait_for_manual_login (core/auth.py)
    mlTimeout,   \* timeout
    mlClock,     \* loop.time() - start_time
    mlSeen,      \* history: what each poll found
    mlPollTimes, \* history: the time each poll began
    mlChecks,    \* history: elapsed at each timeout test
    mlResult,    \* none, returned, AuthenticationError
    \* ---- the selenium Company class (company.py)
    scLists,     \* the list objects, by identity
    scCompanies, \* the Company instances made so far
    \* ---- PersonScraper._extract_unique_texts_from_element (scrapers/person.py)
    utElement, \* the texts the two locators find under the element
    utResult,  \* unique_texts
    utDone     \* the function has returned

scrapeVars == <<scraper, urlValid, pc, events, outcome, caught, page, name,
                nameRead, accIdx, cbFailures, lastCheck, rateHit, navAfterHit,
                authFailed, workAfterAuth>>

loginVars == <<interactive, lpc, curUrl, src, entryKind, userInput,
               sleptTimeout, handlerRaised, loginRaised>>

wtVars == <<wtParts, wtInput, wtResult, wtDone>>

expVars == <<expItem, expResult, expDone>>

dlVars == <<dlPairs, dlIdx, overview, dlPrev>>

mdlVars == <<mdlCls, mdlKwargs, mdlRec, mdlDict, mdlJson, mdlFromDict,
             mdlFromJson>>

cuVars == <<cuUrl, cuBase, cuAbout, cuCompany, cuPc>>

psVars == <<psLimit, psPosts, psScrolls, psScrolled, psScrollFailed, psResult,
            psPc>>

jsVars == <<jsLimit, jsLinks, jsIdx, jsUrls, jsSeen, jsPc>>

bmVars == <<bmKind, bmPlaywright, bmBrowser, bmContext, bmPage, bmStatus,
            bmDirExists, bmLast>>

mgVars == <<mgSessionExists, mgPc, mgOld, mgNew, mgOldStarted, mgNewStarted,
            mgResult, mgCookies, mgImported>>

rtVars == <<rtFunc, rtN, rtB, rtAttempt, rtRaw, rtLog, rtWaits, rtLast, rtResult, rtPc>>

mlVars == <<mlTimeout, mlClock, mlSeen, mlPollTimes, mlChecks, mlResult>>

scVars == <<scLists, scCompanies>>

utVars == <<utElement, utResult, utDone>>

vars == <<scrapeVars, loginVars, wtVars, expVars, dlVars, mdlVars, cuVars,
          psVars, jsVars, bmVars, mgVars, rtVars, mlVars, scVars, utVars>>

\* what the actions of one part of the program leave alone
NotScrape ==
    <<loginVars, wtVars, expVars, dlVars, mdlVars, cuVars, psVars, jsVars,
      bmVars, mgVars, rtVars, mlVars, scVars, utVars>>
NotLogin ==
    <<scrapeVars, wtVars, expVars, dlVars, mdlVars, cuVars, psVars, jsVars,
      bmVars, mgVars, rtVars, mlVars, scVars, utVars>>
NotWorkTimes ==
    <<scrapeVars, loginVars, expVars, dlVars, mdlVars, cuVars, psVars,
      jsVars, bmVars, mgVars, rtVars, mlVars, scVars, utVars>>
NotExperience ==
    <<scrapeVars, loginVars, wtVars, dlVars, mdlVars, cuVars, psVars,
      jsVars, bmVars, mgVars, rtVars, mlVars, scVars, utVars>>
NotOverview ==
    <<scrapeVars, loginVars, wtVars, expVars, mdlVars, cuVars, psVars,
      jsVars, bmVars, mgVars, rtVars, mlVars, scVars, utVars>>
NotModels ==
    <<scrapeVars, loginVars, wtVars, expVars, dlVars, cuVars, psVars,
      jsVars, bmVars, mgVars, rtVars, mlVars, scVars, utVars>>
NotCompanyUrl ==
    <<scrapeVars, loginVars, wtVars, expVars, dlVars, mdlVars, psVars,
      jsVars, bmVars, mgVars, rtVars, mlVars, scVars, utVars>>
NotListing ==
    <<scrapeVars, loginVars, wtVars, expVars, dlVars, mdlVars, cuVars,
      bmVars, mgVars, rtVars, mlVars, scVars, utVars>>
NotBrowser ==
    <<scrapeVars, loginVars, wtVars, expVars, dlVars, mdlVars, cuVars,
      psVars, jsVars, mgVars, rtVars, mlVars, scVars, utVars>>
NotMigrate ==
    <<scrapeVars, loginVars, wtVars, expVars, dlVars, mdlVars, cuVars,
      psVars, jsVars, bmVars, rtVars, mlVars, scVars, utVars>>
NotRetry ==
    <<scrapeVars, loginVars, wtVars, expVars, dlVars, mdlVars, cuVars,
      psVars, jsVars, bmVars, mgVars, mlVars, scVars, utVars>>
NotManualLogin ==
    <<scrapeVars, loginVars, wtVars, expVars, dlVars, mdlVars, cuVars,
      psVars, jsVars, bmVars, mgVars, rtVars, scVars, utVars>>
NotSelenium ==
    <<scrapeVars, loginVars, wtVars, expVars, dlVars, mdlVars, cuVars,
      psVars, jsVars, bmVars, mgVars, rtVars, mlVars, utVars>>
NotUniqueTexts ==
    <<scrapeVars, loginVars, wtVars, expVars, dlVars, mdlVars, cuVars,
      psVars, jsVars, bmVars, mgVars, rtVars, mlVars, scVars>>

(***************************************************************************)
(* Bounds                                                                  *)
(***************************************************************************)
MaxCallbackFailures == 1
\* longest from-date and to-date text, and longest duration text, drawn
MaxPartLen == 2
MaxDurLen == 1
\* longest run of digits in a phone-like text drawn
MaxDigitRun == 8
\* most path segments appended to a company URL drawn
MaxUrlSegments == 3
\* largest limit passed to a listing, number of post URNs, most job links
MaxLimit == 4
MaxUrn == 3
MaxLinks == 3
MaxAttempts == 3
MaxBackoff == 3
MaxTimeoutSec == 3
MaxCompanies == 2
MaxCards == 2
MaxTexts == 3

(***************************************************************************)
(* Exceptions (core/exceptions.py)                                         *)
(***************************************************************************)
Exc(t, w, c) == [type |-> t, wait |-> w, cause |-> c]
NoError == Exc("none", 0, "none")
Running == Exc("running", 0, "none")
Returned == Exc("returned", 0, "none")

CheckpointWait == 3600
CaptchaWait == 3600
PhraseWait == 1800

RateLimitError(w) == Exc("RateLimitError", w, "none")
AuthenticationError == Exc("AuthenticationError", 0, "none")
PlaywrightError == Exc("PlaywrightError", 0, "none")
ValidationError == Exc("ValidationError", 0, "none")
CallbackError == Exc("CallbackError", 0, "none")
\* raise ScrapingError(f"Failed to scrape person profile: {e}") inside `except`
ScrapingError(e) == Exc("ScrapingError", 0, e.type)

(***************************************************************************)
(* Pages                                                                   *)
(***************************************************************************)
UrlKinds == {"normal", "checkpoint", "authwall"}
Pages == [url : UrlKinds, captcha : BOOLEAN, phrase : BOOLEAN,
          bodyTimeout : BOOLEAN, loggedIn : BOOLEAN]
BlankPage == [url |-> "normal", captcha |-> FALSE, phrase |-> FALSE,
              bodyTimeout |-> FALSE, loggedIn |-> FALSE]

\* `except Exception: pass`
SwallowException(e) == NoError

\* core/utils.py detect_rate_limit: the CAPTCHA block raises inside its own try
CaptchaBlock(p) ==
    SwallowException(IF p.captcha THEN RateLimitError(CaptchaWait) ELSE NoError)

\* the body-text block: only a Playwright timeout is swallowed
BodyBlock(p) ==
    IF p.bodyTimeout THEN NoError
    ELSE IF p.phrase THEN RateLimitError(PhraseWait) ELSE NoError

detect_rate_limit(p) ==
    IF p.url \in {"checkpoint", "authwall"} THEN RateLimitError(CheckpointWait)
    ELSE IF CaptchaBlock(p) # NoError THEN CaptchaBlock(p)
    ELSE BodyBlock(p)

\* core/auth.py is_logged_in
is_logged_in(p) == p.loggedIn

\* The indicators detect_rate_limit raises outside a try block for: a
\* checkpoint or authwall URL, or a rate-limit phrase in a body that was read.
RateLimitedPage(p) ==
    p.url \in {"checkpoint", "authwall"} \/ (p.phrase /\ ~p.bodyTimeout)

(***************************************************************************)
(* The entry points as statement lists.  A step is a statement of the      *)
(* entry point; on_progress steps carry their percent.                     *)
(***************************************************************************)
S(op) == [op |-> op, pct |-> 0]
P(n) == [op |-> "on_progress", pct |-> n]

\* PersonScraper.scrape with the last on_progress moved after on_complete
PersonProgramProgressLast ==
    << S("on_start"), S("navigate"), P(10), S("ensure_logged_in"),
       S("page_op"), S("name"), P(20), S("extract"), S("extract"), P(30),
       S("page_op"), S("section"), P(60), S("section"), P(50),
       S("section"), P(65), S("accomplishments"), P(85), S("contacts"),
       P(95), S("construct"), S("on_complete"), P(100), S("return") >>

\* scrapers/person.py PersonScraper.scrape
PersonProgram ==
    << S("on_start"), S("navigate"), P(10), S("ensure_logged_in"),
       S("page_op"), S("name"), P(20), S("extract"), S("extract"), P(30),
       S("page_op"), S("section"), P(60), S("section"), P(50),
       S("section"), P(65), S("accomplishments"), P(85), S("contacts"),
       P(95), S("construct"), P(100), S("on_complete"), S("return") >>

\* scrapers/company.py CompanyScraper.scrape
CompanyProgram ==
    << S("on_start"), S("navigate"), P(10), S("check_rate_limit"),
       S("extract"), P(20), S("extract"), P(30), S("extract"), P(50),
       S("construct"), P(100), S("on_complete"), S("return") >>

\* scrapers/job.py JobScraper.scrape
JobProgram ==
    << S("on_start"), S("navigate"), P(10), S("check_rate_limit"),
       S("extract"), P(20), S("extract"), P(30), S("extract"), P(40),
       S("extract"), P(50), S("extract"), P(60), S("extract"), P(80),
       S("extract"), P(90), S("construct"), P(100), S("on_complete"),
       S("return") >>

\* scrapers/job_search.py JobSearchScraper.search
JobSearchProgram ==
    << S("on_start"), S("navigate"), P(20), S("page_op"), S("page_op"),
       P(50), S("extract"), P(90), P(100), S("on_complete"), S("return") >>

\* scrapers/company_posts.py CompanyPostsScraper.scrape
CompanyPostsProgram ==
    << S("on_start"), S("navigate"), P(10), S("check_rate_limit"),
       S("page_op"), P(20), S("page_op"), P(100), S("on_complete"),
       S("return") >>

Scrapers == {"person", "company", "job", "job_search", "company_posts"}

Program(s) ==
    CASE s = "person" -> PersonProgram
      [] s = "company" -> CompanyProgram
      [] s = "job" -> JobProgram
      [] s = "job_search" -> JobSearchProgram
      [] s = "company_posts" -> CompanyPostsProgram

\* len(accomplishment_sections) in PersonScraper._get_accomplishments
NumAccomplishmentSections == 8

\* Only PersonScraper.scrape has a try/except; it starts after on_start.
InTry(s, i) == s = "person" /\ i > 1

Ev(kind, pct) == [kind |-> kind, pct |-> pct]

Active == outcome = Running /\ caught = NoError
Cur == Program(scraper)[pc]

\* core/utils.py extract_text_safe: how the read ended -> the text returned
NameReads == {"text", "blank", "none", "timeout", "error"}
extract_text_safe(r, default) ==
    CASE r = "text" -> "Alice"
      [] r = "blank" -> ""
      [] OTHER -> default

\* _get_name_and_location with the default of safe_extract_text left at ""
get_name_no_default(r) == extract_text_safe(r, "")

\* PersonScraper._get_name_and_location: safe_extract_text("h1", default="Unknown")
get_name(r) == extract_text_safe(r, "Unknown")

(***************************************************************************)
(* Control flow helpers                                                    *)
(***************************************************************************)
\* An exception raised by statement pc: caught by the try of
\* PersonScraper.scrape, otherwise it reaches the caller.
Throw(e) ==
    /\ pc' = pc
    /\ IF InTry(scraper, pc)
         THEN caught' = e /\ outcome' = outcome
         ELSE caught' = caught /\ outcome' = e

Advance == pc' = pc + 1 /\ UNCHANGED <<outcome, caught>>

\* await self.callback.<kind>(...): the callback method runs and may raise
Deliver(kind, pct) ==
    /\ events' = Append(events, Ev(kind, pct))
    /\ \/ Advance /\ UNCHANGED cbFailures
       \/ /\ cbFailures < MaxCallbackFailures
          /\ cbFailures' = cbFailures + 1
          /\ Throw(CallbackError)

\* page.goto(url) succeeded and the browser shows p; detect_rate_limit(p) runs
Land(p) ==
    /\ page' = p
    /\ lastCheck' = detect_rate_limit(p)
    /\ rateHit' = (rateHit \/ RateLimitedPage(p))
    /\ navAfterHit' = (navAfterHit \/ rateHit)
    /\ workAfterAuth' = (workAfterAuth \/ authFailed)

\* page.goto(url) raised (timeout, network)
GotoFails ==
    /\ navAfterHit' = (navAfterHit \/ rateHit)
    /\ workAfterAuth' = (workAfterAuth \/ authFailed)
    /\ UNCHANGED <<page, lastCheck, rateHit>>

(***************************************************************************)
(* One scrape invocation                                                   *)
(***************************************************************************)
ScrapeInit ==
    /\ scraper \in Scrapers
    /\ urlValid \in BOOLEAN
    /\ pc = 1
    /\ events = << >>
    /\ outcome = Running
    /\ caught = NoError
    /\ page = BlankPage
    /\ name = "unset"
    /\ nameRead = "unread"
    /\ accIdx = 0
    /\ cbFailures = 0
    /\ lastCheck = NoError
    /\ rateHit = FALSE
    /\ navAfterHit = FALSE
    /\ authFailed = FALSE
    /\ workAfterAuth = FALSE

OnStart ==
    /\ Active /\ Cur.op = "on_start"
    /\ Deliver("start", 0)
    /\ UNCHANGED <<scraper, urlValid, page, name, nameRead, accIdx, lastCheck,
                   rateHit, navAfterHit, authFailed, workAfterAuth>>
    /\ UNCHANGED NotScrape

OnProgress ==
    /\ Active /\ Cur.op = "on_progress"
    /\ Deliver("progress", Cur.pct)
    /\ UNCHANGED <<scraper, urlValid, page, name, nameRead, accIdx, lastCheck,
                   rateHit, navAfterHit, authFailed, workAfterAuth>>
    /\ UNCHANGED NotScrape

OnComplete ==
    /\ Active /\ Cur.op = "on_complete"
    /\ Deliver("complete", 0)
    /\ UNCHANGED <<scraper, urlValid, page, name, nameRead, accIdx, lastCheck,
                   rateHit, navAfterHit, authFailed, workAfterAuth>>
    /\ UNCHANGED NotScrape

\* BaseScraper.navigate_and_wait called from the entry point
Navigate ==
    /\ Active /\ Cur.op = "navigate"
    /\ \/ GotoFails /\ Throw(PlaywrightError)
       \/ \E p \in Pages :
            /\ Land(p)
            /\ IF detect_rate_limit(p) = NoError
                 THEN Advance
                 ELSE Throw(detect_rate_limit(p))
    /\ UNCHANGED <<scraper, urlValid, events, name, nameRead, accIdx,
                   cbFailures, authFailed>>
    /\ UNCHANGED NotScrape

\* BaseScraper.ensure_logged_in
EnsureLoggedIn ==
    /\ Active /\ Cur.op = "ensure_logged_in"
    /\ IF is_logged_in(page)
         THEN Advance /\ UNCHANGED authFailed
         ELSE authFailed' = TRUE /\ Throw(AuthenticationError)
    /\ UNCHANGED <<scraper, urlValid, events, page, name, nameRead, accIdx,
                   cbFailures, lastCheck, rateHit, navAfterHit, workAfterAuth>>
    /\ UNCHANGED NotScrape

\* BaseScraper.check_rate_limit on the page as it is by then (the site may
\* have redirected it since the load)
CheckRateLimit ==
    /\ Active /\ Cur.op = "check_rate_limit"
    /\ \E p \in Pages :
         /\ page' = p
         /\ lastCheck' = detect_rate_limit(p)
         /\ rateHit' = (rateHit \/ RateLimitedPage(p))
         /\ IF detect_rate_limit(p) = NoError
              THEN Advance
              ELSE Throw(detect_rate_limit(p))
    /\ UNCHANGED <<scraper, urlValid, events, name, nameRead, accIdx,
                   cbFailures, navAfterHit, authFailed, workAfterAuth>>
    /\ UNCHANGED NotScrape

\* page.wait_for_selector, scroll_page_to_*, page.evaluate: unguarded page calls
PageOp ==
    /\ Active /\ Cur.op = "page_op"
    /\ \/ Advance
       \/ Throw(PlaywrightError)
    /\ UNCHANGED <<scraper, urlValid, events, page, name, nameRead, accIdx,
                   cbFailures, lastCheck, rateHit, navAfterHit, authFailed,
                   workAfterAuth>>
    /\ UNCHANGED NotScrape

\* PersonScraper._get_name_and_location
GetName ==
    /\ Active /\ Cur.op = "name"
    /\ \E r \in NameReads : nameRead' = r /\ name' = get_name(r)
    /\ workAfterAuth' = (workAfterAuth \/ authFailed)
    /\ Advance
    /\ UNCHANGED <<scraper, urlValid, events, page, accIdx, cbFailures,
                   lastCheck, rateHit, navAfterHit, authFailed>>
    /\ UNCHANGED NotScrape

\* the _get_* extractors whose bodies catch every exception
Extract ==
    /\ Active /\ Cur.op = "extract"
    /\ workAfterAuth' = (workAfterAuth \/ authFailed)
    /\ Advance
    /\ UNCHANGED <<scraper, urlValid, events, page, name, nameRead, accIdx,
                   cbFailures, lastCheck, rateHit, navAfterHit, authFailed>>
    /\ UNCHANGED NotScrape

\* A navigate_and_wait inside a `try: ... except Exception:` of a _get_*
\* method of PersonScraper: whatever it raises is logged and dropped.
NestedNavigate ==
    \/ GotoFails
    \/ \E p \in Pages : Land(p)

\* PersonScraper._get_experiences, _get_educations, _get_interests: the items
\* of the main page, and the details page only when there were none
Section ==
    /\ Active /\ Cur.op = "section"
    /\ \/ UNCHANGED <<page, lastCheck, rateHit, navAfterHit>>
          /\ workAfterAuth' = (workAfterAuth \/ authFailed)
       \/ NestedNavigate
    /\ Advance
    /\ UNCHANGED <<scraper, urlValid, events, name, nameRead, accIdx,
                   cbFailures, authFailed>>
    /\ UNCHANGED NotScrape

\* PersonScraper._get_accomplishments: one navigation per section, each in
\* its own try/except
Accomplishments ==
    /\ Active /\ Cur.op = "accomplishments"
    /\ NestedNavigate
    /\ IF accIdx + 1 < NumAccomplishmentSections
         THEN accIdx' = accIdx + 1 /\ UNCHANGED <<pc, outcome, caught>>
         ELSE accIdx' = 0 /\ Advance
    /\ UNCHANGED <<scraper, urlValid, events, name, nameRead, cbFailures,
                   authFailed>>
    /\ UNCHANGED NotScrape

\* PersonScraper._get_contacts
Contacts ==
    /\ Active /\ Cur.op = "contacts"
    /\ NestedNavigate
    /\ Advance
    /\ UNCHANGED <<scraper, urlValid, events, name, nameRead, accIdx,
                   cbFailures, authFailed>>
    /\ UNCHANGED NotScrape

\* Person(...), Company(...), Job(...): the linkedin_url validator runs
Construct ==
    /\ Active /\ Cur.op = "construct"
    /\ IF urlValid THEN Advance ELSE Throw(ValidationError)
    /\ UNCHANGED <<scraper, urlValid, events, page, name, nameRead, accIdx,
                   cbFailures, lastCheck, rateHit, navAfterHit, authFailed,
                   workAfterAuth>>
    /\ UNCHANGED NotScrape

Return ==
    /\ Active /\ Cur.op = "return"
    /\ outcome' = Returned
    /\ UNCHANGED <<scraper, urlValid, pc, events, caught, page, name, nameRead,
                   accIdx, cbFailures, lastCheck, rateHit, navAfterHit,
                   authFailed, workAfterAuth>>
    /\ UNCHANGED NotScrape

\* PersonScraper.scrape: except Exception as e: on_error(e); raise ScrapingError
HandleError ==
    /\ outcome = Running /\ caught # NoError
    /\ events' = Append(events, Ev("error", 0))
    /\ \/ outcome' = ScrapingError(caught) /\ UNCHANGED cbFailures
       \/ /\ cbFailures < MaxCallbackFailures
          /\ cbFailures' = cbFailures + 1
          /\ outcome' = CallbackError
    /\ UNCHANGED <<scraper, urlValid, pc, caught, page, name, nameRead, accIdx,
                   lastCheck, rateHit, navAfterHit, authFailed, workAfterAuth>>
    /\ UNCHANGED NotScrape

ScrapeNext ==
    \/ OnStart \/ OnProgress \/ OnComplete
    \/ Navigate \/ EnsureLoggedIn \/ CheckRateLimit \/ PageOp
    \/ GetName \/ Extract \/ Section \/ Accomplishments \/ Contacts
    \/ Construct \/ Return \/ HandleError

(***************************************************************************)
(* actions.login and _handle_post_login_scenarios (actions.py)             *)
(***************************************************************************)
\* What the checks read off current_url: "checkpoint/challenge" in it,
\* "AgG1DOkeX" in it, one of login_failed_urls in it.
Urls == [challenge : BOOLEAN, agg : BOOLEAN, loginPath : BOOLEAN]
NoUrl == [challenge |-> FALSE, agg |-> FALSE, loginPath |-> FALSE]

\* What the checks read off driver.page_source.lower(): "security check";
\* an invalid_cred_patterns entry other than "sign in to linkedin"; "sign in
\* to linkedin"; "two-factor"; "too many" or "rate limit"; "error" or
\* "invalid"; and whether the VERIFY_LOGIN_ID element is present.
Sources == [secCheck : BOOLEAN, invalidText : BOOLEAN, signIn : BOOLEAN,
            twoFactor : BOOLEAN, rateText : BOOLEAN, errorWord : BOOLEAN,
            marker : BOOLEAN]
NoSource == [secCheck |-> FALSE, invalidText |-> FALSE, signIn |-> FALSE,
             twoFactor |-> FALSE, rateText |-> FALSE, errorWord |-> FALSE,
             marker |-> FALSE]

\* lines 101-133 with interactive ignored: the challenge always raises
challenge_branch_always_raises(u, s, inter) ==
    IF u.challenge
      THEN IF u.agg \/ s.secCheck
             THEN "SecurityChallengeError"
             ELSE "CaptchaRequiredError"
      ELSE "continue"

\* _handle_post_login_scenarios lines 101-133: pause, raise, or go on
challenge_branch(u, s, inter) ==
    IF u.challenge
      THEN IF u.agg \/ s.secCheck
             THEN IF inter THEN "pause_security" ELSE "SecurityChallengeError"
             ELSE IF inter THEN "pause_captcha" ELSE "CaptchaRequiredError"
      ELSE "continue"

on_error_page(u) == u.loginPath
has_error_text(s) == s.invalidText \/ s.signIn

\* _handle_post_login_scenarios lines 135-224, with the URL read at line 98
\* and the page source as it is now; "none" is a normal return
post_login_checks(u, s) ==
    IF on_error_page(u) /\ has_error_text(s) THEN "InvalidCredentialsError"
    ELSE IF has_error_text(s) /\ ~s.signIn THEN "InvalidCredentialsError"
    ELSE IF u.challenge /\ s.twoFactor THEN "TwoFactorAuthError"
    ELSE IF s.rateText THEN "RateLimitError"
    ELSE IF s.marker THEN "none"
    ELSE IF s.errorWord THEN "InvalidCredentialsError"
    ELSE "LoginTimeoutError"

\* login lines 88-93: every exception leaving the try block is re-raised as
\* LoginTimeoutError
login_except(e) == IF e = "none" THEN "none" ELSE "LoginTimeoutError"

LoginIdle ==
    /\ interactive = FALSE
    /\ lpc = "idle"
    /\ curUrl = NoUrl
    /\ src = NoSource
    /\ entryKind = "none"
    /\ userInput = "none"
    /\ sleptTimeout = FALSE
    /\ handlerRaised = "none"
    /\ loginRaised = "none"

LoginInit ==
    /\ interactive \in BOOLEAN
    /\ lpc = "start"
    /\ curUrl = NoUrl
    /\ src = NoSource
    /\ entryKind = "none"
    /\ userInput = "none"
    /\ sleptTimeout = FALSE
    /\ handlerRaised = "none"
    /\ loginRaised = "none"

\* login lines 63-83: load the form, fill it in, submit; the site answers
\* with some page
SubmitCredentials ==
    /\ lpc = "start"
    /\ \/ /\ lpc' = "done"
          /\ loginRaised' = login_except("TimeoutException")
          /\ UNCHANGED <<curUrl, src>>
       \/ \E u \in Urls, s \in Sources :
            /\ curUrl' = u /\ src' = s
            /\ lpc' = "post_login"
            /\ UNCHANGED loginRaised
    /\ UNCHANGED <<interactive, entryKind, userInput, sleptTimeout,
                   handlerRaised>>
    /\ UNCHANGED NotLogin

\* _handle_post_login_scenarios lines 98-133
ChallengeCheck ==
    /\ lpc = "post_login"
    /\ LET b == challenge_branch(curUrl, src, interactive) IN
         /\ entryKind' = IF ~curUrl.challenge THEN "none"
                         ELSE IF curUrl.agg \/ src.secCheck THEN "security"
                         ELSE "captcha"
         /\ IF b = "continue" THEN
               lpc' = "checks" /\ UNCHANGED <<handlerRaised, loginRaised>>
            ELSE IF b \in {"pause_security", "pause_captcha"} THEN
               lpc' = "paused" /\ UNCHANGED <<handlerRaised, loginRaised>>
            ELSE
               /\ lpc' = "done"
               /\ handlerRaised' = b
               /\ loginRaised' = login_except(b)
    /\ UNCHANGED <<interactive, curUrl, src, userInput, sleptTimeout>>
    /\ UNCHANGED NotLogin

\* lines 106-114 and 123-131: input() returns on Enter, or raises EOFError
\* and the flow sleeps `timeout` seconds; meanwhile the user may have changed
\* the page
ManualResolution ==
    /\ lpc = "paused"
    /\ \E inp \in {"enter", "eof"} :
         /\ userInput' = inp
         /\ sleptTimeout' = (inp = "eof")
    /\ \E s \in Sources : s.secCheck = src.secCheck /\ src' = s
    /\ lpc' = "checks"
    /\ UNCHANGED <<interactive, curUrl, entryKind, handlerRaised, loginRaised>>
    /\ UNCHANGED NotLogin

\* _handle_post_login_scenarios lines 135-224, then login's except clauses
PostLoginChecks ==
    /\ lpc = "checks"
    /\ handlerRaised' = post_login_checks(curUrl, src)
    /\ loginRaised' = login_except(post_login_checks(curUrl, src))
    /\ lpc' = "done"
    /\ UNCHANGED <<interactive, curUrl, src, entryKind, userInput,
                   sleptTimeout>>
    /\ UNCHANGED NotLogin

LoginNext ==
    \/ SubmitCredentials \/ ChallengeCheck \/ ManualResolution
    \/ PostLoginChecks

ScrapeIdle ==
    /\ scraper = "person"
    /\ urlValid = TRUE
    /\ pc = 1
    /\ events = << >>
    /\ outcome = Returned
    /\ caught = NoError
    /\ page = BlankPage
    /\ name = "unset"
    /\ nameRead = "unread"
    /\ accIdx = 0
    /\ cbFailures = 0
    /\ lastCheck = NoError
    /\ rateHit = FALSE
    /\ navAfterHit = FALSE
    /\ authFailed = FALSE
    /\ workAfterAuth = FALSE

(***************************************************************************)
(* Properties of login                                                     *)
(***************************************************************************)
\* C3: a non-interactive login whose page after submitting is a CAPTCHA
\* challenge ends with CaptchaRequiredError at the caller of login().
C3_CaptchaErrorReachesCaller ==
    (lpc = "done" /\ ~interactive /\ entryKind = "captcha")
        => loginRaised = "CaptchaRequiredError"

\* The texts the post-login checks look for, besides the logged-in marker.
NoErrorText(s) == ~s.invalidText /\ ~s.signIn /\ ~s.twoFactor /\ ~s.rateText

\* C4: an interactive login on a CAPTCHA challenge page does not raise the
\* challenge errors; it reaches the remaining checks only after input()
\* ended (on EOF having slept `timeout` seconds); and it returns normally
\* when by then the logged-in marker is present and the page shows none of
\* the texts the checks look for.
C4_InteractiveCaptchaPausesAndResumes ==
    (interactive /\ entryKind = "captcha")
        => /\ handlerRaised \notin {"CaptchaRequiredError",
                                    "SecurityChallengeError"}
           /\ lpc \in {"checks", "done"}
                => /\ userInput # "none"
                   /\ (userInput = "eof") => sleptTimeout
           /\ (lpc = "done" /\ src.marker /\ NoErrorText(src))
                => (handlerRaised = "none" /\ loginRaised = "none")

\* C4 witness: an interactive CAPTCHA login that waited out an EOF and then
\* returned normally.
C4_Witness ==
    /\ interactive /\ entryKind = "captcha" /\ lpc = "done"
    /\ userInput = "eof" /\ sleptTimeout
    /\ src.marker /\ NoErrorText(src)
    /\ loginRaised = "none"

\* C5: non-interactive, URL containing "checkpoint/challenge" and page text
\* containing "two-factor": _handle_post_login_scenarios raises
\* TwoFactorAuthError.
C5_TwoFactorOwnError ==
    (lpc = "done" /\ ~interactive /\ curUrl.challenge /\ src.twoFactor)
        => handlerRaised = "TwoFactorAuthError"

(***************************************************************************)
(* Properties of a scrape invocation                                       *)
(***************************************************************************)
Terminal == {"complete", "error"}
Ended == outcome # Running
FailedReads == {"none", "timeout", "error"}

\* C1: whenever an invocation has ended after on_start was delivered (by
\* returning, or by an exception of a navigation, rate-limit check or
\* extraction step; no callback raised), the callback has received an
\* on_complete or an on_error.
C1_TerminalDelivered ==
    (Ended /\ Len(events) > 0 /\ cbFailures = 0)
        => \E i \in 1..Len(events) : events[i].kind \in Terminal

\* C2: in the notifications of one invocation on_start is the first and the
\* only on_start, an ended invocation has delivered it, and no on_progress
\* follows an on_complete or an on_error.
C2_StartFirstNoProgressAfterTerminal ==
    /\ \A i \in 1..Len(events) : (events[i].kind = "start") <=> (i = 1)
    /\ Ended => Len(events) >= 1
    /\ \A i, j \in 1..Len(events) :
         (i < j /\ events[i].kind \in Terminal) => events[j].kind # "progress"

\* C2 witness: a person scrape that failed after reporting progress and
\* delivered on_error.
C2_Witness ==
    /\ scraper = "person" /\ outcome.type = "ScrapingError"
    /\ Len(events) >= 3
    /\ events[2].kind = "progress"
    /\ events[Len(events)].kind = "error"

\* C6: a person scrape that found the page not logged in ends with
\* AuthenticationError at the caller, without extraction or navigation after
\* the check.
C6_AuthenticationErrorPropagates ==
    (scraper = "person" /\ authFailed /\ Ended)
        => (outcome.type = "AuthenticationError" /\ ~workAfterAuth)

\* C7: a scrape in which a navigation landed on a checkpoint or authwall URL
\* or on a body with a rate-limit phrase ends with RateLimitError carrying a
\* positive suggested_wait_time, and made no navigation after that landing
\* (no callback raised).
C7_RateLimitErrorPropagates ==
    (rateHit /\ Ended /\ cbFailures = 0)
        => (outcome.type = "RateLimitError" /\ outcome.wait > 0 /\ ~navAfterHit)

\* C8: detect_rate_limit on a page with a CAPTCHA iframe raises
\* RateLimitError with suggested_wait_time 3600.
C8_CaptchaRaisesRateLimit ==
    page.captcha => lastCheck = RateLimitError(CaptchaWait)

\* C9 as stated: when the name could not be read, the person scrape does not
\* return a Person record.
C9_NameFailureNeverReturns ==
    (scraper = "person" /\ nameRead \in FailedReads) => outcome # Returned

\* C9 amended: when the name element is missing or reading it fails,
\* _get_name_and_location yields the placeholder "Unknown" and the scrape goes
\* on with it; the read itself never is the exception the scrape ends with.
C9_NameFailureYieldsUnknown ==
    (scraper = "person" /\ nameRead \in FailedReads)
        => /\ name = "Unknown"
           /\ (Ended /\ outcome # Returned) => caught # NoError

\* C9 witness: a person scrape returned although the name read timed out.
C9_Witness ==
    scraper = "person" /\ nameRead = "timeout" /\ outcome = Returned

\* C27: the notifications of one invocation hold at most one terminal
\* notification (on_complete or on_error), also when a callback method
\* raises.
C27_AtMostOneTerminal ==
    Cardinality({i \in 1..Len(events) : events[i].kind \in Terminal}) <= 1

ProgressAt == {i \in 1..Len(events) : events[i].kind = "progress"}

\* C28: the percents passed to on_progress are within 0..100 and never
\* decrease, and the on_progress before on_complete carries 100.
C28_ProgressMonotone ==
    /\ \A i \in ProgressAt : events[i].pct \in 0..100
    /\ \A i, j \in ProgressAt : i < j => events[i].pct <= events[j].pct
    /\ \A i \in 2..Len(events) :
         events[i].kind = "complete" =>
             events[i - 1].kind = "progress" /\ events[i - 1].pct = 100

(***************************************************************************)
(* PersonScraper._parse_work_times (scrapers/person.py).  A string is a    *)
(* sequence of one-character strings.                                      *)
(***************************************************************************)
Alphabet == {"a", " ", "-", "·"}
Words(n) == UNION {[1..k -> Alphabet] : k \in 0..n}

\* Python's None, as a value comparable with strings
None == <<"None">>
Middot == <<"·">>
DateSep == <<" ", "-", " ">>

\* sep occurs in s at index i
OccursAt(s, sep, i) ==
    /\ i >= 1 /\ i + Len(sep) - 1 <= Len(s)
    /\ \A k \in 1..Len(sep) : s[i + k - 1] = sep[k]

\* `sep in s`
Contains(s, sep) == \E i \in 1..Len(s) : OccursAt(s, sep, i)

\* index of the first occurrence of sep in s, 0 when there is none
Find(s, sep) ==
    IF Contains(s, sep)
      THEN CHOOSE i \in 1..Len(s) :
             OccursAt(s, sep, i) /\ \A j \in 1..(i - 1) : ~OccursAt(s, sep, j)
      ELSE 0

\* str.split(sep)
RECURSIVE Split(_, _)
Split(s, sep) ==
    LET i == Find(s, sep) IN
      IF i = 0 THEN <<s>>
      ELSE <<SubSeq(s, 1, i - 1)>> \o Split(SubSeq(s, i + Len(sep), Len(s)), sep)

\* the whitespace characters that occur in the texts of this model
Whitespace == {" ", "\n"}

RECURSIVE LStrip(_)
LStrip(s) ==
    IF s # << >> /\ Head(s) \in Whitespace THEN LStrip(Tail(s)) ELSE s
RECURSIVE RStrip(_)
RStrip(s) ==
    IF s # << >> /\ s[Len(s)] \in Whitespace
      THEN RStrip(SubSeq(s, 1, Len(s) - 1)) ELSE s
\* str.strip()
Strip(s) == LStrip(RStrip(s))

\* _parse_work_times without the .strip() of the two date parts
parse_work_times_unstripped_dates(w) ==
    IF w = << >> THEN <<None, None, None>>
    ELSE LET parts == Split(w, Middot)
             times == Strip(parts[1])
             duration == IF Len(parts) > 1 THEN Strip(parts[2]) ELSE None
             date_parts == Split(times, DateSep)
         IN IF Contains(times, DateSep)
              THEN <<date_parts[1],
                     IF Len(date_parts) > 1 THEN date_parts[2] ELSE << >>,
                     duration>>
              ELSE <<times, << >>, duration>>

\* PersonScraper._parse_work_times
parse_work_times(w) ==
    IF w = << >> THEN <<None, None, None>>
    ELSE LET parts == Split(w, Middot)
             times == Strip(parts[1])
             duration == IF Len(parts) > 1 THEN Strip(parts[2]) ELSE None
             date_parts == Split(times, DateSep)
         IN IF Contains(times, DateSep)
              THEN <<Strip(date_parts[1]),
                     IF Len(date_parts) > 1 THEN Strip(date_parts[2]) ELSE << >>,
                     duration>>
              ELSE <<times, << >>, duration>>

\* the texts of the documented examples
Jan2020 == <<"J", "a", "n", " ", "2", "0", "2", "0">>
Dec2022 == <<"D", "e", "c", " ", "2", "0", "2", "2">>
Dur2yrs11mos == <<"2", " ", "y", "r", "s", " ", "1", "1", " ", "m", "o", "s">>
Y2015 == <<"2", "0", "1", "5">>
Present == <<"P", "r", "e", "s", "e", "n", "t">>

Parts(f, a, b, d) == [form |-> f, a |-> a, b |-> b, d |-> d]

Compose(p) ==
    CASE p.form = "ABD" -> p.a \o DateSep \o p.b \o <<" ">> \o Middot \o <<" ">> \o p.d
      [] p.form = "AB" -> p.a \o DateSep \o p.b
      [] p.form = "empty" -> << >>

WorkTimesIdle ==
    /\ wtParts = Parts("empty", << >>, << >>, << >>)
    /\ wtInput = << >>
    /\ wtResult = << >>
    /\ wtDone = TRUE

\* the argument: "A - B · D", "A - B", a documented example, or ""
WorkTimesInit ==
    /\ \/ \E a \in Words(MaxPartLen), b \in Words(MaxPartLen),
             d \in Words(MaxDurLen) : wtParts = Parts("ABD", a, b, d)
       \/ \E a \in Words(MaxPartLen), b \in Words(MaxPartLen) :
             wtParts = Parts("AB", a, b, << >>)
       \/ wtParts = Parts("ABD", Jan2020, Dec2022, Dur2yrs11mos)
       \/ wtParts = Parts("AB", Y2015, Present, << >>)
       \/ wtParts = Parts("empty", << >>, << >>, << >>)
    /\ wtInput = Compose(wtParts)
    /\ wtResult = << >>
    /\ wtDone = FALSE

ParseWorkTimes ==
    /\ ~wtDone
    /\ wtResult' = parse_work_times(wtInput)
    /\ wtDone' = TRUE
    /\ UNCHANGED <<wtParts, wtInput>>
    /\ UNCHANGED NotWorkTimes

(***************************************************************************)
(* Properties of _parse_work_times                                         *)
(***************************************************************************)
Expected(p) ==
    CASE p.form = "ABD" -> <<Strip(p.a), Strip(p.b), Strip(p.d)>>
      [] p.form = "AB" -> <<Strip(p.a), Strip(p.b), None>>
      [] p.form = "empty" -> <<None, None, None>>

\* C10 as stated: every "A - B · D" parses to (A, B, D) trimmed, every
\* "A - B" to (A, B, None), the empty string to (None, None, None).
C10_ParsesEveryString == wtDone => wtResult = Expected(wtParts)

\* A and B hold a non-space character, no part holds a middot, A neither
\* contains " - " nor ends in " -", and B up to its trailing spaces does not
\* contain " - ".
PlainParts(p) ==
    /\ Strip(p.a) # << >> /\ Strip(p.b) # << >>
    /\ ~Contains(p.a, Middot) /\ ~Contains(p.b, Middot) /\ ~Contains(p.d, Middot)
    /\ ~Contains(p.a \o <<" ">>, DateSep)
    /\ ~Contains(RStrip(p.b), DateSep)

\* C10 amended: the same, for the strings whose parts A, B, D are plain in
\* the sense of PlainParts (and for the empty string).
C10_ParsesPlainStrings ==
    (wtDone /\ (wtParts.form = "empty" \/ PlainParts(wtParts)))
        => wtResult = Expected(wtParts)

\* C10 witness: the documented example has been parsed into its three parts.
C10_Witness ==
    /\ wtDone
    /\ wtParts = Parts("ABD", Jan2020, Dec2022, Dur2yrs11mos)
    /\ wtResult = <<Jan2020, Dec2022, Dur2yrs11mos>>

(***************************************************************************)
(* PersonScraper._parse_experience_item and _parse_nested_experience       *)
(* (scrapers/person.py).  A list item is described by what the locators of *)
(* the code find in it: the employer logo link, the heading lines, the     *)
(* nested position links, and whether the wrapper elements around the      *)
(* aria-hidden spans are span/div elements.                                *)
(***************************************************************************)
TextLimit == 200

Acme == <<"A", "c", "m", "e">>
AcmeUrl == <<"/", "c", "o", "/", "a">>
FullTime5y == <<"F", "T", " ", "·", " ", "5", "y">>
Eng == <<"E", "n", "g">>
Mgr == <<"M", "g", "r">>
TimesA == Jan2020 \o DateSep \o Dec2022
TimesB == Y2015 \o DateSep \o Present

\* children[0] of the entity holds no <a>
NoLink == <<"NoLink">>

Experience(title, inst, url, times, loc, desc) ==
    [position_title |-> title, institution_name |-> inst, linkedin_url |-> url,
     from_date |-> times[1], to_date |-> times[2], duration |-> times[3],
     location |-> loc, description |-> desc]

\* text_content() of an element that holds the text t
Raw(t, padded) == IF padded THEN <<" ">> \o t \o <<" ">> ELSE t

RECURSIVE Concat(_)
Concat(ts) == IF ts = << >> THEN << >> ELSE Head(ts) \o Concat(Tail(ts))

\* text_content() of the `generic, span, div` descendants of a link whose
\* lines are ts, in document order: the container (when it is a span or
\* div) and then, per line, the wrapper (likewise) and the aria-hidden span
RECURSIVE LineTexts(_, _)
LineTexts(ts, wrap) ==
    IF ts = << >> THEN << >>
    ELSE (IF wrap THEN <<Head(ts), Head(ts)>> ELSE <<Head(ts)>>)
             \o LineTexts(Tail(ts), wrap)

DescendantTexts(ts, wrap) ==
    (IF wrap THEN <<Concat(ts)>> ELSE << >>) \o LineTexts(ts, wrap)

\* lines 287-291: keep the non-blank texts shorter than 200, stripped
RECURSIVE KeptTexts(_)
KeptTexts(ts) ==
    IF ts = << >> THEN << >>
    ELSE LET t == Strip(Head(ts)) IN
         (IF t # << >> /\ Len(t) < TextLimit THEN <<t>> ELSE << >>)
             \o KeptTexts(Tail(ts))

\* list(dict.fromkeys(texts))
RECURSIVE Unique(_)
Unique(ts) ==
    IF ts = << >> THEN << >>
    ELSE LET rest == Unique(SubSeq(ts, 1, Len(ts) - 1))
             last == ts[Len(ts)]
         IN IF \E i \in 1..Len(rest) : rest[i] = last THEN rest
            ELSE Append(rest, last)

PadAll(ts, padded) == [i \in 1..Len(ts) |-> Raw(ts[i], padded)]

\* item.locator('a, link').all(), in document order
Links(it) ==
    (IF it.logo = NoLink THEN << >>
     ELSE <<[href |-> it.logo, lines |-> << >>]>>)
    \o (IF it.headerLinked
          THEN <<[href |-> AcmeUrl, lines |-> PadAll(it.header, it.padded)]>>
          ELSE << >>)
    \o [i \in 1..Len(it.positions) |->
          [href |-> AcmeUrl,
           lines |-> PadAll(<<it.positions[i].title, it.positions[i].times>>,
                            it.padded)]]

NoResult == [kind |-> "none", records |-> << >>]
Single(e) == [kind |-> "single", records |-> <<e>>]
List(es) == [kind |-> "list", records |-> es]

\* lines 281-312: with two links or more, the second link's texts make one
\* Experience when at least two of them are distinct
link_branch(it) ==
    LET links == Links(it) IN
      IF Len(links) >= 2
        THEN LET unique_texts ==
                   Unique(KeptTexts(DescendantTexts(links[2].lines, it.wrap)))
             IN IF Len(unique_texts) >= 2
                  THEN Single(Experience(
                         unique_texts[1], unique_texts[2], links[1].href,
                         parse_work_times(IF Len(unique_texts) > 2
                                            THEN unique_texts[3] ELSE << >>),
                         IF Len(unique_texts) > 3 THEN unique_texts[4] ELSE << >>,
                         None))
                  ELSE NoResult
        ELSE NoResult

\* PersonScraper._parse_nested_experience: one record per nested position
parse_nested_experience(it, company_url) ==
    LET company_name == IF Len(it.header) >= 1
                          THEN Raw(it.header[1], it.padded) ELSE << >>
    IN List([i \in 1..Len(it.positions) |->
               Experience(Strip(Raw(it.positions[i].title, it.padded)),
                          Strip(company_name), company_url,
                          parse_work_times(Raw(it.positions[i].times, it.padded)),
                          << >>, None)])

\* lines 339-381: the heading lines are position title and company name
parse_flat_experience(it, company_url) ==
    LET position_title == IF Len(it.header) >= 1
                            THEN Raw(it.header[1], it.padded) ELSE << >>
        company_name == IF Len(it.header) >= 2
                          THEN Raw(it.header[2], it.padded) ELSE << >>
    IN Single(Experience(Strip(position_title), Strip(company_name),
                         company_url, parse_work_times(<< >>), << >>, None))

\* PersonScraper._parse_experience_item
parse_experience_item(it) ==
    IF link_branch(it) # NoResult THEN link_branch(it)
    ELSE IF it.logo = NoLink THEN NoResult   \* get_attribute times out: except
    ELSE IF it.positions # << >> THEN parse_nested_experience(it, it.logo)
    ELSE parse_flat_experience(it, it.logo)

Positions == [title : {Eng, Mgr}, times : {TimesA, TimesB}]
ExperienceItems ==
    [logo : {AcmeUrl, NoLink}, headerLinked : BOOLEAN,
     header : {<<Acme>>, <<Acme, FullTime5y>>}, wrap : BOOLEAN,
     padded : BOOLEAN,
     positions : {<< >>} \cup {<<p, q>> : p \in Positions, q \in Positions}]

ExperienceIdle ==
    /\ expItem = [logo |-> NoLink, headerLinked |-> FALSE, header |-> <<Acme>>,
                  wrap |-> FALSE, padded |-> FALSE, positions |-> << >>]
    /\ expResult = NoResult
    /\ expDone = TRUE

ExperienceInit ==
    /\ expItem \in ExperienceItems
    /\ expResult = NoResult
    /\ expDone = FALSE

ParseExperienceItem ==
    /\ ~expDone
    /\ expResult' = parse_experience_item(expItem)
    /\ expDone' = TRUE
    /\ UNCHANGED expItem
    /\ UNCHANGED NotExperience

(***************************************************************************)
(* Properties of _parse_experience_item                                    *)
(***************************************************************************)
\* an employer heading with a logo link and two nested positions
NestedEmployerItem(it) == it.logo # NoLink /\ Len(it.positions) = 2

\* C11: an item with one employer heading and two nested positions yields
\* two Experience records, both with the employer's name and the employer
\* link's href, each with its own position title and date range.
C11_NestedYieldsTwoRecords ==
    (expDone /\ NestedEmployerItem(expItem)) =>
        /\ expResult.kind = "list"
        /\ Len(expResult.records) = 2
        /\ \A i \in 1..2 :
             LET e == expResult.records[i]
                 times == parse_work_times(expItem.positions[i].times)
             IN /\ e.institution_name = expItem.header[1]
                /\ e.linkedin_url = expItem.logo
                /\ e.position_title = expItem.positions[i].title
                /\ e.from_date = times[1]
                /\ e.to_date = times[2]

(***************************************************************************)
(* CompanyScraper._parse_dl_definition_list (scrapers/company.py): one     *)
(* loop iteration per dt element of dl.overflow-hidden.  A character       *)
(* outside Latin script is written as its code point, "U+hhhh".            *)
(***************************************************************************)
Upper == <<"A", "B", "C", "D", "E", "F", "G", "H", "I", "J", "K", "L", "M",
           "N", "O", "P", "Q", "R", "S", "T", "U", "V", "W", "X", "Y", "Z">>
LowerOf == <<"a", "b", "c", "d", "e", "f", "g", "h", "i", "j", "k", "l", "m",
             "n", "o", "p", "q", "r", "s", "t", "u", "v", "w", "x", "y", "z">>
\* str.lower()
Lower(s) ==
    [i \in 1..Len(s) |->
       IF \E k \in 1..26 : Upper[k] = s[i]
         THEN LowerOf[CHOOSE k \in 1..26 : Upper[k] = s[i]] ELSE s[i]]

DigitChars == {"0", "1", "2", "3", "4", "5", "6", "7", "8", "9"}
\* str.isdigit()
IsDigit(s) == s # << >> /\ \A i \in 1..Len(s) : s[i] \in DigitChars
\* sum(c.isdigit() for c in value)
DigitCount(s) == Cardinality({i \in 1..Len(s) : s[i] \in DigitChars})

\* any(p in s for p in patterns)
AnyIn(patterns, s) == \E k \in 1..Len(patterns) : Contains(s, patterns[k])

WebsiteMarks ==
    <<<<"h", "t", "t", "p">>,
      <<"w", "w", "w", ".">>,
      <<".", "c", "o", "m">>,
      <<".", "i", "o">>,
      <<".", "o", "r", "g">>>>
SizePatterns ==
    <<<<"e", "m", "p", "l", "o", "y", "e", "e">>,
      <<"U+C9C1", "U+C6D0">>,
      <<"U+BA85">>,
      <<"k", "+">>,
      <<",", "0", "0", "0">>>>
Cities ==
    <<<<"W", "a", "s", "h", "i", "n", "g", "t", "o", "n">>,
      <<"C", "a", "l", "i", "f", "o", "r", "n", "i", "a">>,
      <<"N", "e", "w", " ", "Y", "o", "r", "k">>,
      <<"T", "e", "x", "a", "s">>,
      <<"L", "o", "n", "d", "o", "n">>,
      <<"T", "o", "k", "y", "o">>,
      <<"S", "i", "n", "g", "a", "p", "o", "r", "e">>,
      <<"S", "a", "n", " ", "F", "r", "a", "n", "c", "i", "s", "c", "o">>,
      <<"S", "e", "a", "t", "t", "l", "e">>,
      <<"B", "o", "s", "t", "o", "n">>,
      <<"A", "u", "s", "t", "i", "n">>,
      <<"B", "e", "r", "l", "i", "n">>,
      <<"P", "a", "r", "i", "s">>>>
PhoneSeparators ==
    <<<<"+">>,
      <<"-">>,
      <<"(">>,
      <<")">>>>
IndustryKeywords ==
    <<<<"i", "n", "d", "u", "s", "t", "r", "y">>,
      <<"i", "n", "d", "u", "s", "t", "r", "i", "e", "s">>,
      <<"U+C5C5", "U+ACC4">>,
      <<"U+C0B0", "U+C5C5">>,
      <<"U+696D", "U+754C">>,
      <<"i", "n", "d", "u", "s", "t", "r", "i", "e">>,
      <<"b", "r", "a", "n", "c", "h", "e">>>>
TypeKeywords ==
    <<<<"t", "y", "p", "e">>,
      <<"U+C720", "U+D615">>,
      <<"U+30BF", "U+30A4", "U+30D7">>,
      <<"t", "y", "p">>>>
SpecialtyKeywords ==
    <<<<"s", "p", "e", "c", "i", "a", "l">>,
      <<"U+C804", "U+BB38">>,
      <<"U+5C02", "U+9580">>,
      <<"s", "p", "é", "c", "i", "a", "l">>>>

HeadquartersLimit == 100
PhoneMinDigits == 7
PhoneMaxDigits == 15
FoundedLen == 4
Software == <<"S", "o", "f", "t", "w", "a", "r", "e">>
TechInfoInternet == <<"T", "e", "c", "h", "n", "o", "l", "o", "g", "y", ",", " ", "I", "n", "f", "o", "r", "m", "a", "t", "i", "o", "n", " ", "a", "n", "d", " ", "I", "n", "t", "e", "r", "n", "e", "t">>
Size10001 == <<"1", "0", ",", "0", "0", "1", "+", " ", "e", "m", "p", "l", "o", "y", "e", "e", "s">>
SizeTwoLines == <<"5", " ", "e", "m", "p", "l", "o", "y", "e", "e", "s", "\n", "3", " ", "m", "e", "m", "b", "e", "r", "s">>
EmployeesSite == <<"e", "m", "p", "l", "o", "y", "e", "e", "s", ".", "c", "o", "m">>
Year1999 == <<"1", "9", "9", "9">>
AcmeSite == <<"a", "c", "m", "e", ".", "c", "o", "m">>
SeattleText == <<"S", "e", "a", "t", "t", "l", "e">>
PublicCompany == <<"P", "u", "b", "l", "i", "c", " ", "C", "o", "m", "p", "a", "n", "y">>
Digits7 == <<"1", "2", "3", "4", "5", "6", "7">>
Blank == <<" ">>
IndustryLabel == <<"I", "n", "d", "u", "s", "t", "r", "y">>
TypeLabel == <<"C", "o", "m", "p", "a", "n", "y", " ", "t", "y", "p", "e">>
SpecialtiesLabel == <<"S", "p", "e", "c", "i", "a", "l", "t", "i", "e", "s">>
PhoneLabel == <<"P", "h", "o", "n", "e">>
AcmeHref == <<"h", "t", "t", "p", "s", ":", "/", "/", "a", "c", "m", "e", ".", "i", "o", "/">>

\* the dt element has no following dd sibling
NoDd == <<"NoDd">>

Falsy(x) == x = None \/ x = << >>

EmptyOverview ==
    [website |-> None, phone |-> None, headquarters |-> None, founded |-> None,
     industry |-> None, company_type |-> None, company_size |-> None,
     specialties |-> None]

\* `if not overview[field]: overview[field] = v`
SetIfUnset(ov, field, v) ==
    IF Falsy(ov[field]) THEN [ov EXCEPT ![field] = v] ELSE ov

\* size_shape without the 'employee' pattern
size_shape_without_employee(lv) == AnyIn(Tail(SizePatterns), lv)

\* line 210: the company-size patterns, tried on value.lower()
size_shape(lv) == AnyIn(SizePatterns, lv)

\* lines 196-197
website_shape(lv) == AnyIn(WebsiteMarks, lv)

\* lines 222-224
headquarters_shape(value) ==
    \/ Contains(value, <<",">>) /\ Len(value) < HeadquartersLimit
    \/ AnyIn(Cities, value)

\* line 229
phone_shape(value) ==
    /\ \E i \in 1..Len(value) : value[i] \in DigitChars
    /\ AnyIn(PhoneSeparators, value)

\* lines 184-249: the body of the loop for one dt/dd pair
parse_pair(ov, pair) ==
    IF pair.value = NoDd THEN ov
    ELSE LET value == Strip(pair.value)
             label == Lower(Strip(pair.label))
             lv == Lower(value)
         IN IF value = << >> THEN ov
            ELSE IF website_shape(lv)
              THEN SetIfUnset(ov, "website",
                     IF pair.href # NoLink /\ ~Falsy(pair.href)
                       THEN pair.href ELSE value)
            ELSE IF size_shape(lv)
              THEN SetIfUnset(ov, "company_size",
                              Strip(Split(value, <<"\n">>)[1]))
            ELSE IF IsDigit(value) /\ Len(value) = FoundedLen
              THEN SetIfUnset(ov, "founded", value)
            ELSE IF headquarters_shape(value)
              THEN SetIfUnset(ov, "headquarters", value)
            ELSE IF phone_shape(value)
              THEN IF DigitCount(value) >= PhoneMinDigits
                      /\ DigitCount(value) <= PhoneMaxDigits
                     THEN SetIfUnset(ov, "phone", value) ELSE ov
            ELSE IF AnyIn(IndustryKeywords, label)
              THEN SetIfUnset(ov, "industry", value)
            ELSE IF AnyIn(TypeKeywords, label)
              THEN SetIfUnset(ov, "company_type", value)
            ELSE IF AnyIn(SpecialtyKeywords, label)
              THEN SetIfUnset(ov, "specialties", value)
            ELSE ov

\* a run of n digits
Digits(n) == [i \in 1..n |-> "5"]

\* phone-like texts: prefix, digits, separator, digits
PhoneLike ==
    {pre \o Digits(n1) \o mid \o Digits(n2) :
       pre \in {<< >>, <<"+">>}, mid \in {<< >>, <<"-">>, <<")", " ">>},
       n1 \in 0..MaxDigitRun, n2 \in {0, MaxDigitRun}}

DlExamples ==
    {Software, TechInfoInternet, Size10001, SizeTwoLines, EmployeesSite,
     Year1999, AcmeSite, SeattleText, PublicCompany, Digits7, Blank, NoDd}

DlLabels == {IndustryLabel, TypeLabel, SpecialtiesLabel, PhoneLabel, << >>}

Pair(l, v, h) == [label |-> l, value |-> v, href |-> h]

OverviewIdle ==
    /\ dlPairs = << >>
    /\ dlIdx = 0
    /\ overview = EmptyOverview
    /\ dlPrev = EmptyOverview

\* _get_overview passes a dict of None values; the page holds one or two pairs
OverviewInit ==
    /\ \E l \in DlLabels, v \in DlExamples \cup PhoneLike,
          h \in {NoLink, AcmeHref} :
         \/ dlPairs = <<Pair(l, v, h)>>
         \/ \E l2 \in {IndustryLabel, << >>}, v2 \in DlExamples :
              dlPairs = <<Pair(l, v, h), Pair(l2, v2, NoLink)>>
    /\ dlIdx = 0
    /\ overview = EmptyOverview
    /\ dlPrev = EmptyOverview

\* one iteration of `for dt in dt_elements`
ParsePair ==
    /\ dlIdx < Len(dlPairs)
    /\ dlIdx' = dlIdx + 1
    /\ dlPrev' = overview
    /\ overview' = parse_pair(overview, dlPairs[dlIdx + 1])
    /\ UNCHANGED dlPairs
    /\ UNCHANGED NotOverview

(***************************************************************************)
(* Properties of _parse_dl_definition_list                                 *)
(***************************************************************************)
\* the pair the last iteration handled, its stripped value and its label
LastPair == dlPairs[dlIdx]
LastValue == Strip(LastPair.value)
LastLabel == Lower(Strip(LastPair.label))
HandledPair == dlIdx > 0 /\ LastPair.value # NoDd /\ LastValue # << >>

\* C12: a pair whose label contains an industry keyword and whose value is
\* non-empty sets the industry field to that value, when the field was not
\* set before.
C12_IndustryLabelSetsIndustry ==
    (HandledPair /\ AnyIn(IndustryKeywords, LastLabel) /\ Falsy(dlPrev.industry))
        => overview.industry = LastValue

UnrecognisedLabel(label) ==
    /\ ~AnyIn(IndustryKeywords, label)
    /\ ~AnyIn(TypeKeywords, label)
    /\ ~AnyIn(SpecialtyKeywords, label)

Employees == <<"e", "m", "p", "l", "o", "y", "e", "e", "s">>

\* digits, spaces and the separators + - ( ), with at least one separator
\* and 7 to 15 digits
PhoneText(v) ==
    /\ \A i \in 1..Len(v) : v[i] \in DigitChars \cup {"+", "-", "(", ")", " "}
    /\ \E i \in 1..Len(v) : v[i] \in {"+", "-", "(", ")"}
    /\ DigitCount(v) >= 7 /\ DigitCount(v) <= 15

FoundedAndPhoneByShape ==
    /\ (IsDigit(LastValue) /\ Len(LastValue) = 4 /\ Falsy(dlPrev.founded))
          => overview.founded = LastValue
    /\ (PhoneText(LastValue) /\ Falsy(dlPrev.phone))
          => overview.phone = LastValue

\* C13 as stated: under an absent or unrecognised label, a value containing
\* 'employees' sets company_size, a 4-digit numeral sets founded, and digits
\* with separators (7 to 15 digits) set phone, each when the field is unset.
C13_ShapesClassify ==
    (HandledPair /\ UnrecognisedLabel(LastLabel)) =>
        /\ (Contains(Lower(LastValue), Employees) /\ Falsy(dlPrev.company_size))
              => ~Falsy(overview.company_size)
        /\ FoundedAndPhoneByShape

\* C13 amended: the same, where a value containing 'employees' sets
\* company_size (to its first line) only if it holds none of the website
\* markers 'http', 'www.', '.com', '.io', '.org'.
C13_ShapesClassifyAfterWebsite ==
    (HandledPair /\ UnrecognisedLabel(LastLabel)) =>
        /\ (/\ Contains(Lower(LastValue), Employees)
            /\ ~AnyIn(WebsiteMarks, Lower(LastValue))
            /\ Falsy(dlPrev.company_size))
              => overview.company_size = Strip(Split(LastValue, <<"\n">>)[1])
        /\ FoundedAndPhoneByShape

\* C13 witness: under an empty label, a two-line employee count has set
\* company_size to its first line.
C13_Witness ==
    /\ HandledPair
    /\ LastLabel = << >>
    /\ LastPair.value = SizeTwoLines
    /\ dlPrev.company_size = None
    /\ overview.company_size = <<"5", " ">> \o Employees

(***************************************************************************)
(* The pydantic records (models/person.py, models/company.py,              *)
(* models/job.py): construction with the linkedin_url validator, to_dict,  *)
(* to_json, and construction again from the converted value.  A Python     *)
(* value carries its type as a tag.                                        *)
(***************************************************************************)
PyNone == [t |-> "None"]
PyStr(s) == [t |-> "str", v |-> s]
PyBool(b) == [t |-> "bool", v |-> b]
PyInt(n) == [t |-> "int", v |-> n]
PyList(xs) == [t |-> "list", v |-> xs]
PyDict(f) == [t |-> "dict", v |-> f]
PyModel(c, f) == [t |-> "model", cls |-> c, v |-> f]
\* pydantic's ValidationError, raised by the constructor
PyValidationError == [t |-> "ValidationError"]
\* nothing has been assigned yet
Unset == [t |-> "unset"]

PersonMarker == <<"l", "i", "n", "k", "e", "d", "i", "n", ".", "c", "o", "m", "/", "i", "n", "/">>
CompanyMarker == <<"l", "i", "n", "k", "e", "d", "i", "n", ".", "c", "o", "m", "/", "c", "o", "m", "p", "a", "n", "y", "/">>
JobMarker == <<"l", "i", "n", "k", "e", "d", "i", "n", ".", "c", "o", "m", "/", "j", "o", "b", "s">>
PersonUrl == <<"h", "t", "t", "p", "s", ":", "/", "/", "l", "i", "n", "k", "e", "d", "i", "n", ".", "c", "o", "m", "/", "i", "n", "/", "a", "n", "n", "/">>
PersonUrlBare == <<"h", "t", "t", "p", "s", ":", "/", "/", "l", "i", "n", "k", "e", "d", "i", "n", ".", "c", "o", "m", "/", "i", "n">>
CompanyUrl == <<"h", "t", "t", "p", "s", ":", "/", "/", "l", "i", "n", "k", "e", "d", "i", "n", ".", "c", "o", "m", "/", "c", "o", "m", "p", "a", "n", "y", "/", "a", "c", "m", "e", "/">>
CompanyUrlBare == <<"l", "i", "n", "k", "e", "d", "i", "n", ".", "c", "o", "m", "/", "c", "o", "m", "p", "a", "n", "y">>
JobUrl == <<"h", "t", "t", "p", "s", ":", "/", "/", "l", "i", "n", "k", "e", "d", "i", "n", ".", "c", "o", "m", "/", "j", "o", "b", "s", "/", "v", "i", "e", "w", "/", "1", "/">>
JobSearchUrl == <<"l", "i", "n", "k", "e", "d", "i", "n", ".", "c", "o", "m", "/", "j", "o", "b", "s">>
OtherUrl == <<"h", "t", "t", "p", "s", ":", "/", "/", "e", "x", "a", "m", "p", "l", "e", ".", "c", "o", "m", "/", "i", "n", "/", "a", "n", "n">>
Ann == <<"A", "n", "n">>

\* a field declaration: name, declared type, item type of a List, required
\* or not, default
Field(n, ty, req, d) ==
    [name |-> n, type |-> ty, item |-> "none", required |-> req, default |-> d]
OptStr(n) == Field(n, "Optional[str]", FALSE, PyNone)
ListOf(n, c) ==
    [name |-> n, type |-> "List", item |-> c, required |-> FALSE,
     default |-> PyList(<< >>)]

\* Person.experiences declared as a plain list, its items left as they come
person_fields_untyped_experiences ==
    <<Field("linkedin_url", "str", TRUE, PyNone), OptStr("name"),
      OptStr("location"), OptStr("about"),
      Field("open_to_work", "bool", FALSE, PyBool(FALSE)),
      ListOf("experiences", "Any"), ListOf("educations", "Education"),
      ListOf("interests", "str"), ListOf("accomplishments", "Accomplishment"),
      ListOf("contacts", "Contact")>>

\* class Person: the declared fields, in order
person_fields ==
    <<Field("linkedin_url", "str", TRUE, PyNone), OptStr("name"),
      OptStr("location"), OptStr("about"),
      Field("open_to_work", "bool", FALSE, PyBool(FALSE)),
      ListOf("experiences", "Experience"), ListOf("educations", "Education"),
      ListOf("interests", "str"), ListOf("accomplishments", "Accomplishment"),
      ListOf("contacts", "Contact")>>

company_fields ==
    <<Field("linkedin_url", "str", TRUE, PyNone), OptStr("name"),
      OptStr("about_us"), OptStr("website"), OptStr("phone"),
      OptStr("headquarters"), OptStr("founded"), OptStr("industry"),
      OptStr("company_type"), OptStr("company_size"), OptStr("specialties"),
      Field("headcount", "Optional[int]", FALSE, PyNone),
      ListOf("showcase_pages", "CompanySummary"),
      ListOf("affiliated_companies", "CompanySummary"),
      ListOf("employees", "Employee")>>

job_fields ==
    <<Field("linkedin_url", "str", TRUE, PyNone), OptStr("job_title"),
      OptStr("company"), OptStr("company_linkedin_url"), OptStr("location"),
      OptStr("posted_date"), OptStr("applicant_count"),
      OptStr("job_description"), OptStr("benefits")>>

experience_fields ==
    <<OptStr("position_title"), OptStr("institution_name"),
      OptStr("linkedin_url"), OptStr("from_date"), OptStr("to_date"),
      OptStr("duration"), OptStr("location"), OptStr("description")>>

education_fields ==
    <<OptStr("institution_name"), OptStr("degree"), OptStr("linkedin_url"),
      OptStr("from_date"), OptStr("to_date"), OptStr("description")>>

accomplishment_fields ==
    <<Field("category", "str", TRUE, PyNone), Field("title", "str", TRUE, PyNone)>>

contact_fields ==
    <<Field("name", "str", TRUE, PyNone), OptStr("occupation"), OptStr("url")>>

company_summary_fields ==
    <<OptStr("linkedin_url"), OptStr("name"), OptStr("followers")>>

employee_fields ==
    <<Field("name", "str", TRUE, PyNone), OptStr("designation"),
      OptStr("linkedin_url")>>

ModelClasses == {"Person", "Company", "Job"}
NestedClasses == {"Experience", "Education", "Accomplishment", "Contact",
                  "CompanySummary", "Employee"}

Fields(c) ==
    CASE c = "Person" -> person_fields
      [] c = "Company" -> company_fields
      [] c = "Job" -> job_fields
      [] c = "Experience" -> experience_fields
      [] c = "Education" -> education_fields
      [] c = "Accomplishment" -> accomplishment_fields
      [] c = "Contact" -> contact_fields
      [] c = "CompanySummary" -> company_summary_fields
      [] c = "Employee" -> employee_fields

FieldNames(c) == {Fields(c)[i].name : i \in 1..Len(Fields(c))}
FieldOf(c, n) == Fields(c)[CHOOSE i \in 1..Len(Fields(c)) : Fields(c)[i].name = n]

Marker(c) ==
    CASE c = "Person" -> PersonMarker
      [] c = "Company" -> CompanyMarker
      [] c = "Job" -> JobMarker

\* a validator that accepts every string
validate_linkedin_url_accepting(c, v) == TRUE

\* validate_linkedin_url of Person, Company and Job: the marker is in v
validate_linkedin_url(c, v) == Contains(v, Marker(c))

\* pydantic's check of a value against a declared scalar type
ValidScalar(ty, v) ==
    CASE ty = "str" -> v.t = "str"
      [] ty = "Optional[str]" -> v.t \in {"None", "str"}
      [] ty = "bool" -> v.t = "bool"
      [] ty = "Optional[int]" -> v.t \in {"None", "int"}
      [] OTHER -> FALSE

ScalarTypes == {"str", "Optional[str]", "bool", "Optional[int]"}

\* the constructor of a nested class (all its fields are scalars)
ValidateNested(c, kw) ==
    IF \E n \in FieldNames(c) :
         \/ n \notin DOMAIN kw /\ FieldOf(c, n).required
         \/ n \in DOMAIN kw /\ ~ValidScalar(FieldOf(c, n).type, kw[n])
      THEN PyValidationError
      ELSE PyModel(c, [n \in FieldNames(c) |->
                         IF n \in DOMAIN kw THEN kw[n] ELSE FieldOf(c, n).default])

\* an item of a List[ty] field: an instance is kept, a dict is validated
ValidateItem(ty, x) ==
    IF ty = "Any" THEN x
    ELSE IF ty = "str" THEN (IF x.t = "str" THEN x ELSE PyValidationError)
    ELSE IF x.t = "model" THEN (IF x.cls = ty THEN x ELSE PyValidationError)
    ELSE IF x.t = "dict" THEN ValidateNested(ty, x.v)
    ELSE PyValidationError

ValidateField(fld, v) ==
    IF fld.type \in ScalarTypes
      THEN (IF ValidScalar(fld.type, v) THEN v ELSE PyValidationError)
    ELSE IF v.t # "list" THEN PyValidationError
    ELSE LET items == [i \in 1..Len(v.v) |-> ValidateItem(fld.item, v.v[i])]
         IN IF \E i \in 1..Len(items) : items[i] = PyValidationError
              THEN PyValidationError ELSE PyList(items)

\* Person(**kw), Company(**kw), Job(**kw): every field is validated, then
\* the field validator of linkedin_url runs; unknown keys are ignored
Validate(c, kw) ==
    LET given == [n \in FieldNames(c) \cap DOMAIN kw |->
                    ValidateField(FieldOf(c, n), kw[n])]
    IN IF \/ \E n \in FieldNames(c) : n \notin DOMAIN kw /\ FieldOf(c, n).required
          \/ \E n \in DOMAIN given : given[n] = PyValidationError
         THEN PyValidationError
       ELSE IF ~validate_linkedin_url(c, given["linkedin_url"].v)
         THEN PyValidationError
       ELSE PyModel(c, [n \in FieldNames(c) |->
                          IF n \in DOMAIN kw THEN given[n]
                          ELSE FieldOf(c, n).default])

\* model_dump(): nested instances become dicts
DumpValue(v) ==
    IF v.t = "list"
      THEN PyList([i \in 1..Len(v.v) |->
                     IF v.v[i].t = "model" THEN PyDict(v.v[i].v) ELSE v.v[i]])
      ELSE v

to_dict(m) == PyDict([n \in DOMAIN m.v |-> DumpValue(m.v[n])])

\* model_dump_json(): the JSON text, as the tree of its values
RECURSIVE ToJson(_)
ToJson(v) ==
    CASE v.t = "None" -> [j |-> "null"]
      [] v.t = "bool" -> [j |-> IF v.v THEN "true" ELSE "false"]
      [] v.t = "int" -> [j |-> "number", v |-> v.v]
      [] v.t = "str" -> [j |-> "string", v |-> v.v]
      [] v.t = "list" -> [j |-> "array", v |-> [i \in 1..Len(v.v) |-> ToJson(v.v[i])]]
      [] v.t \in {"dict", "model"} ->
           [j |-> "object", v |-> [n \in DOMAIN v.v |-> ToJson(v.v[n])]]

to_json(m) == ToJson(m)

\* json.loads
RECURSIVE Loads(_)
Loads(x) ==
    CASE x.j = "null" -> PyNone
      [] x.j = "true" -> PyBool(TRUE)
      [] x.j = "false" -> PyBool(FALSE)
      [] x.j = "number" -> PyInt(x.v)
      [] x.j = "string" -> PyStr(x.v)
      [] x.j = "array" -> PyList([i \in 1..Len(x.v) |-> Loads(x.v[i])])
      [] x.j = "object" -> PyDict([n \in DOMAIN x.v |-> Loads(x.v[n])])

\* nested values, given as an instance or as a dict
ExperienceA ==
    PyModel("Experience",
            [n \in FieldNames("Experience") |->
               IF n = "position_title" THEN PyStr(Eng) ELSE PyNone])
ExperienceB == PyDict([position_title |-> PyStr(Mgr), institution_name |-> PyStr(Acme)])
ContactA == PyDict([name |-> PyStr(Ann), url |-> PyNone])
\* a Contact without its required name
ContactNameless == PyDict([occupation |-> PyStr(Eng)])
EmployeeA ==
    PyModel("Employee",
            [n \in FieldNames("Employee") |->
               IF n = "name" THEN PyStr(Ann) ELSE PyNone])
SummaryA == PyDict([name |-> PyStr(Acme), followers |-> PyNone])

UrlInputs ==
    {PyStr(u) : u \in {PersonUrl, PersonUrlBare, CompanyUrl, CompanyUrlBare,
                       JobUrl, JobSearchUrl, OtherUrl, << >>}} \cup {PyNone}

PersonKwargs(url) ==
    [linkedin_url |-> url, name |-> PyStr(Ann), open_to_work |-> PyBool(TRUE),
     experiences |-> PyList(<<ExperienceA, ExperienceB>>),
     interests |-> PyList(<<PyStr(Acme)>>), contacts |-> PyList(<<ContactA>>)]
PersonKwargsNameless(url) ==
    [linkedin_url |-> url, contacts |-> PyList(<<ContactA, ContactNameless>>)]
CompanyKwargs(url) ==
    [linkedin_url |-> url, name |-> PyStr(Acme), headcount |-> PyInt(5),
     showcase_pages |-> PyList(<<SummaryA>>), employees |-> PyList(<<EmployeeA>>)]
JobKwargs(url) ==
    [linkedin_url |-> url, job_title |-> PyStr(Eng), company |-> PyStr(Acme),
     salary |-> PyStr(Ann)]

\* the keyword arguments keys of a call, taken from the full set kw
Given(kw, keys) == [n \in keys |-> kw[n]]

ModelsIdle ==
    /\ mdlCls = "Job"
    /\ mdlKwargs = Unset
    /\ mdlRec = PyValidationError
    /\ mdlDict = Unset /\ mdlJson = Unset
    /\ mdlFromDict = Unset /\ mdlFromJson = Unset

ModelsInit ==
    /\ \E url \in UrlInputs :
         \/ /\ mdlCls = "Person"
            /\ \/ \E keys \in SUBSET DOMAIN PersonKwargs(url) :
                    mdlKwargs = Given(PersonKwargs(url), keys)
               \/ mdlKwargs = PersonKwargsNameless(url)
         \/ /\ mdlCls = "Company"
            /\ \E keys \in SUBSET DOMAIN CompanyKwargs(url) :
                 mdlKwargs = Given(CompanyKwargs(url), keys)
         \/ /\ mdlCls = "Job"
            /\ \E keys \in SUBSET DOMAIN JobKwargs(url) :
                 mdlKwargs = Given(JobKwargs(url), keys)
    /\ mdlRec = Unset
    /\ mdlDict = Unset /\ mdlJson = Unset
    /\ mdlFromDict = Unset /\ mdlFromJson = Unset

\* r = Person(**kwargs) (or Company, Job)
ConstructRecord ==
    /\ mdlRec = Unset
    /\ mdlRec' = Validate(mdlCls, mdlKwargs)
    /\ UNCHANGED <<mdlCls, mdlKwargs, mdlDict, mdlJson, mdlFromDict, mdlFromJson>>
    /\ UNCHANGED NotModels

\* d = r.to_dict()
ToDict ==
    /\ mdlRec.t = "model" /\ mdlDict = Unset
    /\ mdlDict' = to_dict(mdlRec)
    /\ UNCHANGED <<mdlCls, mdlKwargs, mdlRec, mdlJson, mdlFromDict, mdlFromJson>>
    /\ UNCHANGED NotModels

\* s = r.to_json()
ToJsonText ==
    /\ mdlRec.t = "model" /\ mdlJson = Unset
    /\ mdlJson' = to_json(mdlRec)
    /\ UNCHANGED <<mdlCls, mdlKwargs, mdlRec, mdlDict, mdlFromDict, mdlFromJson>>
    /\ UNCHANGED NotModels

\* Person(**d)
FromDict ==
    /\ mdlDict # Unset /\ mdlFromDict = Unset
    /\ mdlFromDict' = Validate(mdlCls, mdlDict.v)
    /\ UNCHANGED <<mdlCls, mdlKwargs, mdlRec, mdlDict, mdlJson, mdlFromJson>>
    /\ UNCHANGED NotModels

\* Person(**json.loads(s))
FromJson ==
    /\ mdlJson # Unset /\ mdlFromJson = Unset
    /\ mdlFromJson' = Validate(mdlCls, Loads(mdlJson).v)
    /\ UNCHANGED <<mdlCls, mdlKwargs, mdlRec, mdlDict, mdlJson, mdlFromDict>>
    /\ UNCHANGED NotModels

ModelsNext == ConstructRecord \/ ToDict \/ ToJsonText \/ FromDict \/ FromJson

(***************************************************************************)
(* Properties of the records                                               *)
(***************************************************************************)
\* the call passes a string for linkedin_url that lacks the class's marker
UrlLacksMarker ==
    /\ mdlKwargs # Unset
    /\ "linkedin_url" \in DOMAIN mdlKwargs
    /\ mdlKwargs["linkedin_url"].t = "str"
    /\ ~Contains(mdlKwargs["linkedin_url"].v, Marker(mdlCls))

HasMarker(r) == r.t = "model" => Contains(r.v["linkedin_url"].v, Marker(mdlCls))

\* C14: constructing a Person, Company or Job with a linkedin_url lacking
\* the class's marker raises a validation error and creates no record;
\* every record that exists carries a URL containing its marker.
C14_UrlMarkerEnforced ==
    /\ (mdlRec # Unset /\ UrlLacksMarker) => mdlRec = PyValidationError
    /\ HasMarker(mdlRec) /\ HasMarker(mdlFromDict) /\ HasMarker(mdlFromJson)

\* C14 witness: a Person call with 'https://linkedin.com/in' was rejected.
C14_Witness ==
    /\ mdlCls = "Person"
    /\ UrlLacksMarker
    /\ mdlKwargs["linkedin_url"] = PyStr(PersonUrlBare)
    /\ mdlRec = PyValidationError

\* C15: a record rebuilt from r.to_dict(), and from the parsed r.to_json(),
\* equals r in every field, nested lists included.
C15_RoundTrip ==
    /\ mdlFromDict # Unset => mdlFromDict = mdlRec
    /\ mdlFromJson # Unset => mdlFromJson = mdlRec

\* C15 witness: a Person with two experiences, a contact and an interest
\* has been rebuilt both ways.
C15_Witness ==
    /\ mdlCls = "Person"
    /\ mdlRec.t = "model"
    /\ Len(mdlRec.v["experiences"].v) = 2
    /\ Len(mdlRec.v["contacts"].v) = 1
    /\ mdlFromDict = mdlRec
    /\ mdlFromJson = mdlRec

(***************************************************************************)
(* CompanyScraper.scrape (scrapers/company.py): the URL it navigates to    *)
(* and the linkedin_url of the Company it builds.                          *)
(***************************************************************************)
Slash == <<"/">>
AboutPath == <<"/", "a", "b", "o", "u", "t">>
AboutSuffix == <<"/", "a", "b", "o", "u", "t", "/">>
CompanyPrefix == <<"h", "t", "t", "p", "s", ":", "/", "/", "w", "w", "w", ".", "l", "i", "n", "k", "e", "d", "i", "n", ".", "c", "o", "m", "/", "c", "o", "m", "p", "a", "n", "y", "/">>
SitePrefix == <<"h", "t", "t", "p", "s", ":", "/", "/", "w", "w", "w", ".", "l", "i", "n", "k", "e", "d", "i", "n", ".", "c", "o", "m", "/">>

\* str.rstrip('/')
RECURSIVE RStripSlash(_)
RStripSlash(s) ==
    IF s # << >> /\ s[Len(s)] = "/" THEN RStripSlash(SubSeq(s, 1, Len(s) - 1))
    ELSE s

\* str.replace(old, new)
RECURSIVE Replace(_, _, _)
Replace(s, old, new) ==
    LET i == Find(s, old) IN
      IF i = 0 THEN s
      ELSE SubSeq(s, 1, i - 1) \o new
             \o Replace(SubSeq(s, i + Len(old), Len(s)), old, new)

\* lines 55-59: base_url
base_url_of(linkedin_url) ==
    LET base_url == RStripSlash(linkedin_url) IN
      IF Contains(base_url, AboutPath)
        THEN Replace(base_url, AboutPath, << >>) ELSE base_url

\* lines 55-61: about_url
about_url_of(linkedin_url) ==
    LET base_url == RStripSlash(linkedin_url) IN
      IF Contains(base_url, AboutPath) THEN base_url
      ELSE base_url \o AboutSuffix

\* the path segments a URL is put together from
UrlSegments == {<<"x">>, Slash, AboutPath, <<"a", "b", "o", "u", "t">>}
RECURSIVE SegmentSeqs(_)
SegmentSeqs(n) ==
    IF n = 0 THEN {<< >>}
    ELSE SegmentSeqs(n - 1)
           \cup {Append(q, g) : q \in SegmentSeqs(n - 1), g \in UrlSegments}

CompanyUrlIdle ==
    /\ cuUrl = << >> /\ cuBase = << >> /\ cuAbout = << >>
    /\ cuCompany = Unset /\ cuPc = "done"

CompanyUrlInit ==
    /\ \E pre \in {CompanyPrefix, SitePrefix}, q \in SegmentSeqs(MaxUrlSegments) :
         cuUrl = pre \o Concat(q)
    /\ cuBase = << >> /\ cuAbout = << >>
    /\ cuCompany = Unset /\ cuPc = "start"

\* lines 55-61
NormalizeUrl ==
    /\ cuPc = "start"
    /\ cuBase' = base_url_of(cuUrl)
    /\ cuAbout' = about_url_of(cuUrl)
    /\ cuPc' = "normalized"
    /\ UNCHANGED <<cuUrl, cuCompany>>
    /\ UNCHANGED NotCompanyUrl

\* lines 79-84: Company(linkedin_url=base_url, ...)
BuildCompany ==
    /\ cuPc = "normalized"
    /\ cuCompany' = Validate("Company", [linkedin_url |-> PyStr(cuBase)])
    /\ cuPc' = "done"
    /\ UNCHANGED <<cuUrl, cuBase, cuAbout>>
    /\ UNCHANGED NotCompanyUrl

CompanyUrlNext == NormalizeUrl \/ BuildCompany

(***************************************************************************)
(* Properties of the company URL                                           *)
(***************************************************************************)
\* C16: the Company returned by scrape(url) has linkedin_url equal to url,
\* for every valid company URL, the form ending in '/' included.
C16_ReturnedUrlEqualsInput ==
    (cuPc = "done" /\ cuCompany # Unset /\ cuCompany.t = "model")
        => cuCompany.v["linkedin_url"].v = cuUrl

DropSuffix(s, suffix) ==
    IF Len(s) >= Len(suffix) /\ SubSeq(s, Len(s) - Len(suffix) + 1, Len(s)) = suffix
      THEN SubSeq(s, 1, Len(s) - Len(suffix)) ELSE s

\* u, with or without its trailing '/', with or without its trailing '/about'
CanonicalForms(u) ==
    {u, DropSuffix(u, Slash), DropSuffix(u, AboutPath),
     DropSuffix(DropSuffix(u, Slash), AboutPath)}

\* C30: for a URL the Company model accepts, the URL that scrape hands to
\* Company(...) is accepted too, and is the input less at most a trailing
\* '/' and a trailing '/about'.
C30_CanonicalUrlAccepted ==
    (cuPc = "done" /\ validate_linkedin_url("Company", cuUrl))
        => /\ cuCompany.t = "model"
           /\ cuBase \in CanonicalForms(cuUrl)

(***************************************************************************)
(* Listings: CompanyPostsScraper._scrape_posts (scrapers/company_posts.py) *)
(* and JobSearchScraper._extract_job_urls (scrapers/job_search.py).  One   *)
(* of the two runs; what the page returns is chosen freely at each read.   *)
(***************************************************************************)
Post(u) == [urn |-> u]
Urns == 1..MaxUrn

\* _extract_posts_via_js: the posts of the URNs found, each URN once
ExtractResults ==
    {<< >>} \cup {<<Post(u)>> : u \in Urns}
            \cup {<<Post(q[1]), Post(q[2])>> :
                    q \in {r \in Urns \X Urns : r[1] # r[2]}}

\* one scroll round more than line 84 allows
max_scrolls_plus_one(limit) == (limit \div 3) + 3

\* line 84
max_scrolls(limit) == (limit \div 3) + 2

\* lines 89-93: append the posts whose urn is new, stop at limit
RECURSIVE AddPosts(_, _, _)
AddPosts(posts, new_posts, limit) ==
    IF new_posts = << >> THEN posts
    ELSE LET post == Head(new_posts)
             fresh == \A i \in 1..Len(posts) : posts[i].urn # post.urn
         IN IF fresh /\ Len(posts) + 1 >= limit THEN Append(posts, post)
            ELSE AddPosts(IF fresh THEN Append(posts, post) ELSE posts,
                          Tail(new_posts), limit)

\* seq[:n]
Prefix(seq, n) == SubSeq(seq, 1, IF n < Len(seq) THEN n ELSE Len(seq))

PostsIdle ==
    /\ psLimit = 0 /\ psPosts = << >> /\ psScrolls = 0
    /\ psScrolled = FALSE /\ psScrollFailed = FALSE
    /\ psResult = << >> /\ psPc = "done"

PostsInit ==
    /\ psLimit \in 0..MaxLimit
    /\ psPosts = << >> /\ psScrolls = 0
    /\ psScrolled = FALSE /\ psScrollFailed = FALSE
    /\ psResult = << >> /\ psPc = "loop"

\* lines 86-98: one pass of the while loop; _scroll_for_more_posts swallows
\* its own errors
ScrollRound ==
    /\ psPc = "loop"
    /\ Len(psPosts) < psLimit /\ psScrolls < max_scrolls(psLimit)
    /\ \E new_posts \in ExtractResults, failed \in BOOLEAN :
         LET posts == AddPosts(psPosts, new_posts, psLimit) IN
           /\ psPosts' = posts
           /\ IF Len(posts) < psLimit
                THEN /\ psScrolls' = psScrolls + 1
                     /\ psScrolled' = TRUE
                     /\ psScrollFailed' = (psScrollFailed \/ failed)
                ELSE /\ psScrolled' = FALSE
                     /\ UNCHANGED <<psScrolls, psScrollFailed>>
    /\ UNCHANGED <<psLimit, psResult, psPc>>
    /\ UNCHANGED jsVars
    /\ UNCHANGED NotListing

\* line 100
ReturnPosts ==
    /\ psPc = "loop"
    /\ ~(Len(psPosts) < psLimit /\ psScrolls < max_scrolls(psLimit))
    /\ psResult' = Prefix(psPosts, psLimit)
    /\ psPc' = "done"
    /\ UNCHANGED <<psLimit, psPosts, psScrolls, psScrolled, psScrollFailed>>
    /\ UNCHANGED jsVars
    /\ UNCHANGED NotListing

JobsViewPath == <<"/", "j", "o", "b", "s", "/", "v", "i", "e", "w", "/">>
JobsViewMarker == <<"l", "i", "n", "k", "e", "d", "i", "n", ".", "c", "o", "m", "/", "j", "o", "b", "s", "/", "v", "i", "e", "w", "/">>
Http == <<"h", "t", "t", "p">>
LinkedInHost == <<"h", "t", "t", "p", "s", ":", "/", "/", "w", "w", "w", ".", "l", "i", "n", "k", "e", "d", "i", "n", ".", "c", "o", "m">>
QuestionMark == <<"?">>
HrefRelative == <<"/", "j", "o", "b", "s", "/", "v", "i", "e", "w", "/", "1">>
HrefWithQuery == <<"h", "t", "t", "p", "s", ":", "/", "/", "w", "w", "w", ".", "l", "i", "n", "k", "e", "d", "i", "n", ".", "c", "o", "m", "/", "j", "o", "b", "s", "/", "v", "i", "e", "w", "/", "1", "?", "r", "e", "f", "I", "d", "=", "x">>
HrefAbsolute == <<"h", "t", "t", "p", "s", ":", "/", "/", "w", "w", "w", ".", "l", "i", "n", "k", "e", "d", "i", "n", ".", "c", "o", "m", "/", "j", "o", "b", "s", "/", "v", "i", "e", "w", "/", "2">>
HrefInQuery == <<"/", "j", "o", "b", "s", "/", "s", "e", "a", "r", "c", "h", "?", "n", "e", "x", "t", "=", "/", "j", "o", "b", "s", "/", "v", "i", "e", "w", "/", "3">>
HrefOtherPath == <<"/", "c", "o", "m", "m", "/", "j", "o", "b", "s", "/", "v", "i", "e", "w", "/", "4">>

\* str.startswith(prefix)
StartsWith(s, prefix) == OccursAt(s, prefix, 1)

\* lines 132-136: the URL without its query, made absolute
clean_url_of(href) ==
    LET clean_url == IF Contains(href, QuestionMark)
                       THEN Split(href, QuestionMark)[1] ELSE href
    IN IF ~StartsWith(clean_url, Http) THEN LinkedInHost \o clean_url
       ELSE clean_url

\* the href attributes a link of the result list can carry; None when the
\* attribute is gone
Hrefs == {HrefRelative, HrefWithQuery, HrefAbsolute, HrefInQuery,
          HrefOtherPath, None}

RECURSIVE LinkSeqs(_)
LinkSeqs(n) ==
    IF n = 0 THEN {<< >>}
    ELSE LinkSeqs(n - 1) \cup {Append(q, h) : q \in LinkSeqs(n - 1), h \in Hrefs}

JobsIdle ==
    /\ jsLimit = 0 /\ jsLinks = << >> /\ jsIdx = 0
    /\ jsUrls = << >> /\ jsSeen = {} /\ jsPc = "done"

JobsInit ==
    /\ jsLimit \in 0..MaxLimit
    /\ jsLinks \in LinkSeqs(MaxLinks)
    /\ jsIdx = 0
    /\ jsUrls = << >> /\ jsSeen = {} /\ jsPc = "loop"

\* lines 125-141: one pass of `for link in job_links`
ExtractLink ==
    /\ jsPc = "loop"
    /\ jsIdx < Len(jsLinks) /\ Len(jsUrls) < jsLimit
    /\ jsIdx' = jsIdx + 1
    /\ LET href == jsLinks[jsIdx + 1] IN
         IF href # None /\ href # << >> /\ Contains(href, JobsViewPath)
              /\ clean_url_of(href) \notin jsSeen
           THEN /\ jsUrls' = Append(jsUrls, clean_url_of(href))
                /\ jsSeen' = jsSeen \cup {clean_url_of(href)}
           ELSE UNCHANGED <<jsUrls, jsSeen>>
    /\ UNCHANGED <<jsLimit, jsLinks, jsPc>>
    /\ UNCHANGED psVars
    /\ UNCHANGED NotListing

\* line 146: the loop is over, or `break` at the limit
ReturnJobUrls ==
    /\ jsPc = "loop"
    /\ ~(jsIdx < Len(jsLinks) /\ Len(jsUrls) < jsLimit)
    /\ jsPc' = "done"
    /\ UNCHANGED <<jsLimit, jsLinks, jsIdx, jsUrls, jsSeen>>
    /\ UNCHANGED psVars
    /\ UNCHANGED NotListing

ListingIdle == PostsIdle /\ JobsIdle
ListingInit == (PostsInit /\ JobsIdle) \/ (JobsInit /\ PostsIdle)
ListingNext == ScrollRound \/ ReturnPosts \/ ExtractLink \/ ReturnJobUrls

(***************************************************************************)
(* Properties of the listings                                              *)
(***************************************************************************)
\* C17: _scrape_posts(limit), limit >= 0, terminates whatever the page
\* returns: at most (limit // 3) + 2 scroll rounds, no scroll once `limit`
\* posts are collected, and the loop ends by returning the posts collected.
C17_ScrapePostsTerminates ==
    /\ [](/\ psScrolls <= (psLimit \div 3) + 2
          /\ psScrolled => Len(psPosts) < psLimit
          /\ psPc = "done" => psResult = Prefix(psPosts, psLimit))
    /\ <>(psPc = "done")

\* C17 witness: with limit 3 the page never yielded a post and scrolling
\* failed; after 3 rounds the call returned the empty list.
C17_Witness ==
    /\ psPc = "done" /\ psLimit = 3
    /\ psScrolls = 3 /\ psScrollFailed
    /\ psPosts = << >> /\ psResult = << >>

Distinct(seq) == \A i, k \in 1..Len(seq) : i # k => seq[i] # seq[k]

\* the cleaned URLs of the links that carry a job href, in document order
RECURSIVE CleanedLinks(_)
CleanedLinks(links) ==
    IF links = << >> THEN << >>
    ELSE (IF Head(links) # None /\ Contains(Head(links), JobsViewPath)
            THEN <<clean_url_of(Head(links))>> ELSE << >>)
           \o CleanedLinks(Tail(links))

\* C18: both listings return at most `limit` items and no duplicate (post
\* URN, job URL without its query); job URLs keep first-seen order and each
\* contains 'linkedin.com/jobs/view/'.
C18_ListingsBoundedUniqueJobUrls ==
    /\ psPc = "done" =>
         /\ Len(psResult) <= psLimit
         /\ Distinct([i \in 1..Len(psResult) |-> psResult[i].urn])
    /\ jsPc = "done" =>
         /\ Len(jsUrls) <= jsLimit
         /\ Distinct(jsUrls)
         /\ jsUrls = Prefix(Unique(CleanedLinks(jsLinks)), Len(jsUrls))
         /\ \A i \in 1..Len(jsUrls) : Contains(jsUrls[i], JobsViewMarker)

(***************************************************************************)
(* BrowserManager and PersistentBrowserManager (core/browser.py).  A       *)
(* handle field is TRUE when it holds an object and FALSE when it is None; *)
(* any Playwright call may raise.                                          *)
(***************************************************************************)
ManagerKinds == {"BrowserManager", "PersistentBrowserManager"}

\* the fields start() assigns, in order
StartSteps(kind) ==
    IF kind = "BrowserManager"
      THEN <<"playwright", "browser", "context", "page">>
      ELSE <<"mkdir", "playwright", "context", "page">>

\* the fields close() releases, in order
CloseSteps(kind) ==
    IF kind = "BrowserManager"
      THEN <<"page", "context", "browser", "playwright">>
      ELSE <<"page", "context", "playwright">>

IndexOf(seq, x) == CHOOSE i \in 1..Len(seq) : seq[i] = x

Handles ==
    [playwright |-> bmPlaywright, browser |-> bmBrowser,
     context |-> bmContext, page |-> bmPage]

NoHandles ==
    [playwright |-> FALSE, browser |-> FALSE, context |-> FALSE, page |-> FALSE]

SetHandles(h) ==
    /\ bmPlaywright' = h.playwright /\ bmBrowser' = h.browser
    /\ bmContext' = h.context /\ bmPage' = h.page

\* start(): the handles once the steps before `fail` have run ("none": all)
started_handles(kind, h, fail) ==
    LET steps == StartSteps(kind)
        n == IF fail = "none" THEN Len(steps) ELSE IndexOf(steps, fail) - 1
    IN [f \in DOMAIN h |->
          IF \E i \in 1..n : steps[i] = f THEN TRUE ELSE h[f]]

\* the steps of close() that can raise: those whose handle is held
CloseFailures(kind, h) ==
    {"none"} \cup {f \in DOMAIN h : h[f] /\ \E i \in 1..Len(CloseSteps(kind)) :
                                             CloseSteps(kind)[i] = f}

\* close(): each held handle is closed and set to None, in order; the first
\* call that raises ends the method (the exception is logged)
closed_handles(kind, h, fail) ==
    LET steps == CloseSteps(kind)
        n == IF fail = "none" THEN Len(steps) ELSE IndexOf(steps, fail) - 1
    IN [f \in DOMAIN h |->
          IF \E i \in 1..n : steps[i] = f THEN FALSE ELSE h[f]]

\* the property `page`
page_property(h) == IF ~h.page THEN "RuntimeError" ELSE "handle"
\* the property `context`
context_property(h) == IF ~h.context THEN "RuntimeError" ELSE "handle"

NoCall == [call |-> "none", status |-> "new", result |-> "none",
           dirBefore |-> FALSE, dirAfter |-> FALSE]

BrowserIdle ==
    /\ bmKind = "BrowserManager"
    /\ bmPlaywright = FALSE /\ bmBrowser = FALSE
    /\ bmContext = FALSE /\ bmPage = FALSE
    /\ bmStatus = "idle" /\ bmDirExists = FALSE /\ bmLast = NoCall

\* __init__
BrowserInit ==
    /\ bmKind \in ManagerKinds
    /\ bmPlaywright = FALSE /\ bmBrowser = FALSE
    /\ bmContext = FALSE /\ bmPage = FALSE
    /\ bmStatus = "new"
    /\ bmDirExists \in BOOLEAN
    /\ bmLast = NoCall

Call(c, r, dirAfter) ==
    [call |-> c, status |-> bmStatus, result |-> r,
     dirBefore |-> bmDirExists, dirAfter |-> dirAfter]

\* start(): returns with every handle set, or closes what it opened and
\* raises
StartBrowser ==
    /\ bmStatus # "idle"
    /\ \E fail \in {"none"} \cup {StartSteps(bmKind)[i] : i \in 1..Len(StartSteps(bmKind))} :
         LET h == started_handles(bmKind, Handles, fail)
             created == bmKind = "PersistentBrowserManager"
                          /\ fail \in {"none", "page"}
             dir == bmDirExists \/ created
         IN /\ bmDirExists' = dir
            /\ IF fail = "none"
                 THEN /\ SetHandles(h)
                      /\ bmStatus' = "started"
                      /\ bmLast' = Call("start", "ok", dir)
                 ELSE /\ \E cfail \in CloseFailures(bmKind, h) :
                           SetHandles(closed_handles(bmKind, h, cfail))
                      /\ bmStatus' = "failed"
                      /\ bmLast' = Call("start", "error", dir)
    /\ UNCHANGED bmKind
    /\ UNCHANGED NotBrowser

\* close(): raises nothing
CloseBrowser ==
    /\ bmStatus # "idle"
    /\ \E cfail \in CloseFailures(bmKind, Handles) :
         SetHandles(closed_handles(bmKind, Handles, cfail))
    /\ bmStatus' = IF bmStatus = "new" THEN "new" ELSE "closed"
    /\ bmLast' = Call("close", "ok", bmDirExists)
    /\ UNCHANGED <<bmKind, bmDirExists>>
    /\ UNCHANGED NotBrowser

\* manager.page
ReadPage ==
    /\ bmStatus # "idle"
    /\ bmLast' = Call("page", page_property(Handles), bmDirExists)
    /\ UNCHANGED <<bmKind, bmPlaywright, bmBrowser, bmContext, bmPage,
                   bmStatus, bmDirExists>>
    /\ UNCHANGED NotBrowser

\* manager.context
ReadContext ==
    /\ bmStatus # "idle"
    /\ bmLast' = Call("context", context_property(Handles), bmDirExists)
    /\ UNCHANGED <<bmKind, bmPlaywright, bmBrowser, bmContext, bmPage,
                   bmStatus, bmDirExists>>
    /\ UNCHANGED NotBrowser

\* PersistentBrowserManager.clear_profile()
ClearProfile ==
    /\ bmStatus # "idle"
    /\ bmKind = "PersistentBrowserManager"
    /\ IF bmContext
         THEN /\ bmLast' = Call("clear_profile", "RuntimeError", bmDirExists)
              /\ UNCHANGED bmDirExists
         ELSE /\ bmLast' = Call("clear_profile", "ok", FALSE)
              /\ bmDirExists' = FALSE
    /\ UNCHANGED <<bmKind, bmPlaywright, bmBrowser, bmContext, bmPage, bmStatus>>
    /\ UNCHANGED NotBrowser

BrowserNext ==
    StartBrowser \/ CloseBrowser \/ ReadPage \/ ReadContext \/ ClearProfile

(***************************************************************************)
(* Properties of the browser managers                                      *)
(***************************************************************************)
\* C19: over any sequence of start() and close() calls, reading `page` or
\* `context` raises RuntimeError when the manager is not started (never
\* started, or closed since the last start) and returns a handle when it is
\* started.
C19_HandlesFollowLifecycle ==
    bmLast.call \in {"page", "context"} =>
        /\ bmLast.status \in {"new", "closed"} => bmLast.result = "RuntimeError"
        /\ bmLast.status = "started" => bmLast.result = "handle"

\* C20: clear_profile() raises RuntimeError and leaves the directory alone
\* while the browser is running; after close() it deletes the directory.
C20_ClearProfileOnlyWhenClosed ==
    bmLast.call = "clear_profile" =>
        /\ bmLast.status = "started" =>
             bmLast.result = "RuntimeError" /\ bmLast.dirAfter = bmLast.dirBefore
        /\ bmLast.status = "closed" =>
             bmLast.result = "ok" /\ ~bmLast.dirAfter


\* C29: when close() has returned, the manager holds no handle any more
\* (also when closing one of them failed), so that a second close() finds
\* nothing to close and clear_profile() is permitted.
C29_CloseReleasesEveryHandle ==
    bmLast.call = "close" =>
        /\ bmLast.result = "ok"
        /\ Handles = NoHandles

(***************************************************************************)
(* migrate_session_to_profile (core/browser.py): an old BrowserManager     *)
(* loads the session file, a new PersistentBrowserManager receives its     *)
(* cookies.                                                                *)
(***************************************************************************)
AllClosed(h) == \A f \in DOMAIN h : ~h[f]

MigrateIdle ==
    /\ mgSessionExists = FALSE /\ mgPc = "idle"
    /\ mgCookies = FALSE /\ mgImported = FALSE
    /\ mgOld = NoHandles /\ mgNew = NoHandles
    /\ mgOldStarted = FALSE /\ mgNewStarted = FALSE
    /\ mgResult = "none"

MigrateInit ==
    /\ mgSessionExists \in BOOLEAN /\ mgPc = "check"
    /\ mgCookies \in BOOLEAN /\ mgImported = FALSE
    /\ mgOld = NoHandles /\ mgNew = NoHandles
    /\ mgOldStarted = FALSE /\ mgNewStarted = FALSE
    /\ mgResult = "none"

\* if not session_path.exists(): raise FileNotFoundError
MigrateCheckSession ==
    /\ mgPc = "check"
    /\ IF mgSessionExists
         THEN mgPc' = "start_old" /\ UNCHANGED mgResult
         ELSE mgPc' = "done" /\ mgResult' = "FileNotFoundError"
    /\ UNCHANGED <<mgSessionExists, mgOld, mgNew, mgOldStarted, mgNewStarted,
                   mgCookies, mgImported>>
    /\ UNCHANGED NotMigrate

\* old_browser = BrowserManager(...); await old_browser.start()   (outside
\* the try: a NetworkError leaves the function)
MigrateStartOld ==
    /\ mgPc = "start_old"
    /\ \E fail \in {"none"} \cup {StartSteps("BrowserManager")[i] : i \in 1..4} :
         LET h == started_handles("BrowserManager", mgOld, fail)
         IN IF fail = "none"
              THEN /\ mgOld' = h /\ mgOldStarted' = TRUE
                   /\ mgPc' = "load" /\ UNCHANGED mgResult
              ELSE /\ \E cfail \in CloseFailures("BrowserManager", h) :
                        mgOld' = closed_handles("BrowserManager", h, cfail)
                   /\ mgPc' = "done" /\ mgResult' = "NetworkError"
                   /\ UNCHANGED mgOldStarted
    /\ UNCHANGED <<mgSessionExists, mgNew, mgNewStarted,
                   mgCookies, mgImported>>
    /\ UNCHANGED NotMigrate

\* load_session(...) and context.storage_state(): the context and the page
\* are replaced, never set to None; either call may raise
MigrateLoadSession ==
    /\ mgPc = "load"
    /\ \E raised \in BOOLEAN :
         mgPc' = IF raised THEN "outer_except" ELSE "close_old"
    /\ UNCHANGED <<mgSessionExists, mgOld, mgNew, mgOldStarted, mgNewStarted,
                   mgResult,
                   mgCookies, mgImported>>
    /\ UNCHANGED NotMigrate

\* await old_browser.close()
MigrateCloseOld ==
    /\ mgPc = "close_old"
    /\ \E cfail \in CloseFailures("BrowserManager", mgOld) :
         mgOld' = closed_handles("BrowserManager", mgOld, cfail)
    /\ mgPc' = "start_new"
    /\ UNCHANGED <<mgSessionExists, mgNew, mgOldStarted, mgNewStarted, mgResult,
                   mgCookies, mgImported>>
    /\ UNCHANGED NotMigrate

\* new_browser = PersistentBrowserManager(...); await new_browser.start()
\* (inside the outer try)
MigrateStartNew ==
    /\ mgPc = "start_new"
    /\ \E fail \in {"none"} \cup {StartSteps("PersistentBrowserManager")[i] : i \in 1..4} :
         LET h == started_handles("PersistentBrowserManager", mgNew, fail)
         IN IF fail = "none"
              THEN /\ mgNew' = h /\ mgNewStarted' = TRUE /\ mgPc' = "fill"
              ELSE /\ \E cfail \in CloseFailures("PersistentBrowserManager", h) :
                        mgNew' = closed_handles("PersistentBrowserManager", h, cfail)
                   /\ mgPc' = "outer_except"
                   /\ UNCHANGED mgNewStarted
    /\ UNCHANGED <<mgSessionExists, mgOld, mgOldStarted, mgResult,
                   mgCookies, mgImported>>
    /\ UNCHANGED NotMigrate

\* add_cookies, goto, the URL test, then new_browser.close() and
\* return success; an exception on the way goes to the inner handler
MigrateFill ==
    /\ mgPc = "fill"
    /\ \/ /\ mgPc' = "inner_except"
          /\ mgImported' \in {FALSE, mgCookies}
          /\ UNCHANGED <<mgNew, mgResult>>
       \/ /\ mgImported' = mgCookies
          /\ \E cfail \in CloseFailures("PersistentBrowserManager", mgNew) :
               mgNew' = closed_handles("PersistentBrowserManager", mgNew, cfail)
          /\ \E success \in BOOLEAN :
               mgResult' = IF success THEN "True" ELSE "False"
          /\ mgPc' = "done"
    /\ UNCHANGED <<mgSessionExists, mgOld, mgOldStarted, mgNewStarted, mgCookies>>
    /\ UNCHANGED NotMigrate

\* inner except Exception: await new_browser.close(); return False
MigrateInnerExcept ==
    /\ mgPc = "inner_except"
    /\ \E cfail \in CloseFailures("PersistentBrowserManager", mgNew) :
         mgNew' = closed_handles("PersistentBrowserManager", mgNew, cfail)
    /\ mgResult' = "False" /\ mgPc' = "done"
    /\ UNCHANGED <<mgSessionExists, mgOld, mgOldStarted, mgNewStarted,
                   mgCookies, mgImported>>
    /\ UNCHANGED NotMigrate

\* outer except Exception: await old_browser.close(); return False
MigrateOuterExcept ==
    /\ mgPc = "outer_except"
    /\ \E cfail \in CloseFailures("BrowserManager", mgOld) :
         mgOld' = closed_handles("BrowserManager", mgOld, cfail)
    /\ mgResult' = "False" /\ mgPc' = "done"
    /\ UNCHANGED <<mgSessionExists, mgNew, mgOldStarted, mgNewStarted,
                   mgCookies, mgImported>>
    /\ UNCHANGED NotMigrate

MigrateNext ==
    \/ MigrateCheckSession \/ MigrateStartOld \/ MigrateLoadSession
    \/ MigrateCloseOld \/ MigrateStartNew \/ MigrateFill
    \/ MigrateInnerExcept \/ MigrateOuterExcept

(***************************************************************************)
(* Properties of migrate_session_to_profile                                *)
(***************************************************************************)
\* C21: when migrate_session_to_profile exits no browser is left running:
\* without a session file it raises FileNotFoundError before any browser
\* is started; on every other exit every manager it started holds no handle
\* any more, and once the old browser has started the exit is a return of
\* True or False, never an exception.
C21_MigrateLeavesNoBrowser ==
    mgPc = "done" =>
        /\ ~mgSessionExists =>
             /\ mgResult = "FileNotFoundError"
             /\ ~mgOldStarted /\ ~mgNewStarted
        /\ AllClosed(mgOld) /\ AllClosed(mgNew)
        /\ mgOldStarted => mgResult \in {"True", "False"}


(***************************************************************************)
(* retry_async (core/utils.py) and the method it decorates,                *)
(* BaseScraper.safe_click (scrapers/base.py).  `generic` is any coroutine  *)
(* that returns or raises; E1 and E2 are exceptions of the tuple           *)
(* `exceptions`, Other is not.                                             *)
(***************************************************************************)
Ret(v) == [kind |-> "return", value |-> v]
Raise(e) == [kind |-> "raise", value |-> e]
NoOutcome == [kind |-> "none", value |-> "none"]

RECURSIVE Pow(_, _)
Pow(b, k) == IF k = 0 THEN 1 ELSE b * Pow(b, k - 1)

\* wait_time = backoff ** attempt, as the next attempt would compute it
wait_time_of_next_attempt(b, attempt) == Pow(b, attempt + 1)

\* wait_time = backoff ** attempt
wait_time(b, attempt) == Pow(b, attempt)

SafeClickAttempts == 3
SafeClickBackoff == 2

\* what an attempt of the wrapped coroutine can meet
RawOutcomes(f) ==
    IF f = "safe_click"
      THEN {"clicked", "PlaywrightTimeoutError", "Error"}
      ELSE {"ok", "E1", "E2", "Other"}

\* the body of safe_click: True after the click, False after any exception
safe_click(raw) == IF raw = "clicked" THEN Ret("True") ELSE Ret("False")

\* the wrapped coroutine
func(f, raw) ==
    IF f = "safe_click" THEN safe_click(raw)
    ELSE IF raw = "ok" THEN Ret("ok") ELSE Raise(raw)

\* the tuple `exceptions`
Retryable(f) ==
    IF f = "safe_click" THEN {"PlaywrightTimeoutError"} ELSE {"E1", "E2"}

RetryIdle ==
    /\ rtFunc = "none" /\ rtN = 1 /\ rtB = 1 /\ rtAttempt = 0
    /\ rtRaw = << >> /\ rtLog = << >> /\ rtWaits = << >>
    /\ rtLast = "None" /\ rtResult = NoOutcome /\ rtPc = "idle"

\* a call of the wrapper
RetryInit ==
    /\ \/ /\ rtFunc = "generic"
          /\ rtN \in 1..MaxAttempts /\ rtB \in 1..MaxBackoff
       \/ /\ rtFunc = "safe_click"
          /\ rtN = SafeClickAttempts /\ rtB = SafeClickBackoff
    /\ rtAttempt = 0
    /\ rtRaw = << >> /\ rtLog = << >> /\ rtWaits = << >>
    /\ rtLast = "None" /\ rtResult = NoOutcome /\ rtPc = "loop"

\* one iteration of `for attempt in range(max_attempts)`, and the raise
\* that follows the last one
RetryAttempt ==
    /\ rtPc = "loop" /\ rtAttempt < rtN
    /\ \E raw \in RawOutcomes(rtFunc) :
         LET o == func(rtFunc, raw)
         IN /\ rtRaw' = Append(rtRaw, raw)
            /\ rtLog' = Append(rtLog, o)
            /\ IF o.kind = "return"
                 THEN /\ rtResult' = o /\ rtPc' = "done"
                      /\ UNCHANGED <<rtAttempt, rtWaits, rtLast>>
                 ELSE IF o.value \in Retryable(rtFunc)
                 THEN /\ rtLast' = o.value
                      /\ rtAttempt' = rtAttempt + 1
                      /\ IF rtAttempt < rtN - 1
                           THEN /\ rtWaits' = Append(rtWaits, wait_time(rtB, rtAttempt))
                                /\ UNCHANGED <<rtResult, rtPc>>
                           ELSE /\ rtResult' = Raise(o.value) /\ rtPc' = "done"
                                /\ UNCHANGED rtWaits
                 ELSE /\ rtResult' = o /\ rtPc' = "done"
                      /\ UNCHANGED <<rtAttempt, rtWaits, rtLast>>
    /\ UNCHANGED <<rtFunc, rtN, rtB>>
    /\ UNCHANGED NotRetry

RetryNext == RetryAttempt

(***************************************************************************)
(* Properties of retry_async and safe_click                                *)
(***************************************************************************)
LastInvocation == rtLog[Len(rtLog)]

\* C22: the wrapper invokes the coroutine at most n times; every invocation
\* but the last failed with an exception of E; the k-th wait is b**(k-1)
\* and follows each failure but the n-th; the call ends with the first
\* return, with the last exception after n failures, or at once with an
\* exception that is not in E.
C22_RetryAsyncContract ==
    /\ Len(rtLog) <= rtN
    /\ \A i \in 1..Len(rtLog) - 1 :
         rtLog[i].kind = "raise" /\ rtLog[i].value \in Retryable(rtFunc)
    /\ \A k \in 1..Len(rtWaits) : rtWaits[k] = Pow(rtB, k - 1)
    /\ rtPc = "loop" => Len(rtWaits) = Len(rtLog)
    /\ rtPc = "done" =>
         /\ Len(rtWaits) = Len(rtLog) - 1
         /\ rtResult = LastInvocation
         /\ (LastInvocation.kind = "raise"
               /\ LastInvocation.value \in Retryable(rtFunc)) => Len(rtLog) = rtN

C22_Witness ==
    /\ rtPc = "done" /\ rtFunc = "generic" /\ rtN = 3 /\ rtB = 2
    /\ rtLog = <<Raise("E1"), Raise("E2"), Raise("E1")>>
    /\ rtWaits = <<1, 2>> /\ rtResult = Raise("E1")

\* C23: safe_click attempts the click again after a Playwright timeout, up
\* to three attempts: True comes from a click that succeeded, and False
\* after timeouts only comes once three attempts have been made.
C23_SafeClickRetriesTimeouts ==
    (rtFunc = "safe_click" /\ rtPc = "done") =>
        /\ rtResult = Ret("True") => rtRaw[Len(rtRaw)] = "clicked"
        /\ (/\ rtResult = Ret("False")
            /\ \A i \in 1..Len(rtRaw) : rtRaw[i] = "PlaywrightTimeoutError")
             => Len(rtRaw) = SafeClickAttempts


(***************************************************************************)
(* wait_for_manual_login (core/auth.py).  Times are in milliseconds; a     *)
(* poll of the page takes PollDurations.                                   *)
(***************************************************************************)
PollSleep == 1000
PollDurations == {0, 500}

\* elapsed >= timeout
timed_out_at_timeout(elapsed, timeout) == elapsed >= timeout

\* if elapsed > timeout
timed_out(elapsed, timeout) == elapsed > timeout

ManualLoginIdle ==
    /\ mlTimeout = 0 /\ mlClock = 0 /\ mlSeen = << >> /\ mlPollTimes = << >>
    /\ mlChecks = << >> /\ mlResult = "idle"

\* the call; start_time is 0
ManualLoginInit ==
    /\ mlTimeout \in {PollSleep * k : k \in 0..MaxTimeoutSec}
    /\ mlClock = 0 /\ mlSeen = << >> /\ mlPollTimes = << >>
    /\ mlChecks = << >> /\ mlResult = "none"

\* one pass of `while True`: is_logged_in(page), the timeout test, the sleep
ManualLoginPoll ==
    /\ mlResult = "none"
    /\ \E logged \in BOOLEAN, d \in PollDurations :
         LET elapsed == mlClock + d
         IN /\ mlPollTimes' = Append(mlPollTimes, mlClock)
            /\ mlSeen' = Append(mlSeen, logged)
            /\ IF logged
                 THEN /\ mlResult' = "returned"
                      /\ mlClock' = elapsed
                      /\ UNCHANGED mlChecks
                 ELSE /\ mlChecks' = Append(mlChecks, elapsed)
                      /\ IF timed_out(elapsed, mlTimeout)
                           THEN mlResult' = "AuthenticationError" /\ mlClock' = elapsed
                           ELSE mlResult' = "none" /\ mlClock' = elapsed + PollSleep
    /\ UNCHANGED mlTimeout
    /\ UNCHANGED NotManualLogin

ManualLoginNext == ManualLoginPoll

DefaultShowcase == 1
DefaultAffiliated == 2

\* CompanySummary(...) for the k-th card found on the page of company i
Summary(i, k) == [company |-> i, card |-> k]
Cards(i, n) == [k \in 1..n |-> Summary(i, k)]

\* the list bound to the parameter showcase_pages
showcase_argument(defaults, lists) ==
    IF defaults THEN DefaultShowcase ELSE Len(lists) + 1
\* the list bound to the parameter affiliated_companies
affiliated_argument(defaults, lists) ==
    IF defaults THEN DefaultAffiliated ELSE Len(lists) + 2

\* what the loop over the affiliated companies appends: the one of
\* scrape_logged_in iterates over a single WebElement, which raises inside
\* its try
affiliated_found(signedIn, i, n) == IF signedIn THEN << >> ELSE Cards(i, n)

SeleniumIdle == scLists = << >> /\ scCompanies = << >>

\* the module has been imported: the default lists exist and are empty
SeleniumInit == scLists = << << >>, << >> >> /\ scCompanies = << >>

\* Company(url, ...) with scrape=True: __init__ binds the lists, scrape()
\* appends what the page shows
NewCompany ==
    /\ scLists # << >>
    /\ Len(scCompanies) < MaxCompanies
    /\ \E defaults \in BOOLEAN, signedIn \in BOOLEAN,
          ns \in 0..MaxCards, na \in 0..MaxCards :
         LET i == Len(scCompanies) + 1
             s == showcase_argument(defaults, scLists)
             a == affiliated_argument(defaults, scLists)
             allocated == IF defaults THEN scLists ELSE scLists \o << << >>, << >> >>
             shown == Cards(i, ns)
             affiliated == affiliated_found(signedIn, i, na)
         IN /\ scLists' = [allocated EXCEPT ![s] = @ \o shown,
                                            ![a] = @ \o affiliated]
            /\ scCompanies' = Append(scCompanies,
                 [showcase_pages |-> s, affiliated_companies |-> a,
                  defaults |-> defaults,
                  scraped |-> [showcase |-> shown, affiliated |-> affiliated]])
    /\ UNCHANGED NotSelenium

SeleniumNext == NewCompany

(***************************************************************************)
(* Properties of the selenium Company class                                *)
(***************************************************************************)
\* C25: the showcase_pages and affiliated_companies of a Company made with
\* default arguments hold what its own scrape appended and nothing that
\* the scrape of another instance appended.
C25_RecordsNotShared ==
    \A i \in 1..Len(scCompanies) :
        scCompanies[i].defaults =>
            /\ scLists[scCompanies[i].showcase_pages]
                 = scCompanies[i].scraped.showcase
            /\ scLists[scCompanies[i].affiliated_companies]
                 = scCompanies[i].scraped.affiliated


(***************************************************************************)
(* PersonScraper._extract_unique_texts_from_element (scrapers/person.py).  *)
(* The element is described by the text_content() of the elements each of  *)
(* the two locators finds in it; << >> is a missing or empty text.         *)
(***************************************************************************)
OverlapMinLen == 3

AcmeLead == Acme \o <<" ", "L", "d">>
LongText == [i \in 1..TextLimit |-> "x"]

\* text in t or t in text, for some kept t with len(t) > 3
Overlaps(text, kept) ==
    \E i \in 1..Len(kept) :
        /\ Len(kept[i]) > OverlapMinLen
        /\ Contains(kept[i], text) \/ Contains(text, kept[i])

\* the loop over text_elements
RECURSIVE unique_texts_of(_)
unique_texts_of(ts) ==
    IF ts = << >> THEN << >>
    ELSE LET kept == unique_texts_of(SubSeq(ts, 1, Len(ts) - 1))
             text == Strip(ts[Len(ts)])
         IN IF /\ text # << >>
               /\ ~(\E i \in 1..Len(kept) : kept[i] = text)
               /\ Len(text) < TextLimit
               /\ ~Overlaps(text, kept)
              THEN Append(kept, text)
              ELSE kept

\* the elements of the first locator or, when it finds none, of the second
text_elements(el) == IF el.hidden # << >> THEN el.hidden ELSE el.any

extract_unique_texts_from_element(el) == unique_texts_of(text_elements(el))

ElementTexts ==
    {Acme, Raw(Acme, TRUE), AcmeLead, Eng, <<" ">>, << >>, LongText}

TextLists ==
    UNION {[1..n -> ElementTexts] : n \in 0..MaxTexts}

UniqueTextsIdle ==
    /\ utElement = [hidden |-> << >>, any |-> << >>]
    /\ utResult = << >> /\ utDone = TRUE

UniqueTextsInit ==
    /\ utElement \in {[hidden |-> h, any |-> << >>] : h \in TextLists} \cup
                     {[hidden |-> << >>, any |-> a] : a \in TextLists}
    /\ utResult = << >>
    /\ utDone = FALSE

ExtractUniqueTexts ==
    /\ ~utDone
    /\ utResult' = extract_unique_texts_from_element(utElement)
    /\ utDone' = TRUE
    /\ UNCHANGED utElement
    /\ UNCHANGED NotUniqueTexts

UniqueTextsNext == ExtractUniqueTexts

(***************************************************************************)
(* Properties of _extract_unique_texts_from_element                        *)
(***************************************************************************)
\* C26: the result holds, once each and in the order of their first
\* occurrence, exactly the distinct non-empty stripped texts of fewer than
\* 200 characters of the elements.
C26_UniqueTextsKeepDistinct ==
    utDone => utResult = Unique(KeptTexts(text_elements(utElement)))

(***************************************************************************)
(* Specifications: one per part of the program, the other parts at rest    *)
(***************************************************************************)
Init ==
    /\ ScrapeInit /\ LoginIdle /\ WorkTimesIdle /\ ExperienceIdle
    /\ OverviewIdle /\ ModelsIdle /\ CompanyUrlIdle /\ ListingIdle
    /\ BrowserIdle
    /\ MigrateIdle
    /\ RetryIdle
    /\ ManualLoginIdle
    /\ SeleniumIdle
    /\ UniqueTextsIdle
Next == ScrapeNext
Spec == Init /\ [][Next]_vars

LoginStart ==
    /\ LoginInit /\ ScrapeIdle /\ WorkTimesIdle /\ ExperienceIdle
    /\ OverviewIdle /\ ModelsIdle /\ CompanyUrlIdle /\ ListingIdle
    /\ BrowserIdle
    /\ MigrateIdle
    /\ RetryIdle
    /\ ManualLoginIdle
    /\ SeleniumIdle
    /\ UniqueTextsIdle
SpecLogin == LoginStart /\ [][LoginNext]_vars

WorkTimesStart ==
    /\ WorkTimesInit /\ ScrapeIdle /\ LoginIdle /\ ExperienceIdle
    /\ OverviewIdle /\ ModelsIdle /\ CompanyUrlIdle /\ ListingIdle
    /\ BrowserIdle
    /\ MigrateIdle
    /\ RetryIdle
    /\ ManualLoginIdle
    /\ SeleniumIdle
    /\ UniqueTextsIdle
WorkTimesNext == ParseWorkTimes
SpecWorkTimes == WorkTimesStart /\ [][WorkTimesNext]_vars

ExperienceStart ==
    /\ ExperienceInit /\ ScrapeIdle /\ LoginIdle /\ WorkTimesIdle
    /\ OverviewIdle /\ ModelsIdle /\ CompanyUrlIdle /\ ListingIdle
    /\ BrowserIdle
    /\ MigrateIdle
    /\ RetryIdle
    /\ ManualLoginIdle
    /\ SeleniumIdle
    /\ UniqueTextsIdle
ExperienceNext == ParseExperienceItem
SpecExperience == ExperienceStart /\ [][ExperienceNext]_vars

OverviewStart ==
    /\ OverviewInit /\ ScrapeIdle /\ LoginIdle /\ WorkTimesIdle
    /\ ExperienceIdle /\ ModelsIdle /\ CompanyUrlIdle /\ ListingIdle
    /\ BrowserIdle
    /\ MigrateIdle
    /\ RetryIdle
    /\ ManualLoginIdle
    /\ SeleniumIdle
    /\ UniqueTextsIdle
OverviewNext == ParsePair
SpecOverview == OverviewStart /\ [][OverviewNext]_vars

ModelsStart ==
    /\ ModelsInit /\ ScrapeIdle /\ LoginIdle /\ WorkTimesIdle
    /\ ExperienceIdle /\ OverviewIdle /\ CompanyUrlIdle /\ ListingIdle
    /\ BrowserIdle
    /\ MigrateIdle
    /\ RetryIdle
    /\ ManualLoginIdle
    /\ SeleniumIdle
    /\ UniqueTextsIdle
SpecModels == ModelsStart /\ [][ModelsNext]_vars

CompanyUrlStart ==
    /\ CompanyUrlInit /\ ScrapeIdle /\ LoginIdle /\ WorkTimesIdle
    /\ ExperienceIdle /\ OverviewIdle /\ ModelsIdle /\ ListingIdle
    /\ BrowserIdle
    /\ MigrateIdle
    /\ RetryIdle
    /\ ManualLoginIdle
    /\ SeleniumIdle
    /\ UniqueTextsIdle
SpecCompanyUrl == CompanyUrlStart /\ [][CompanyUrlNext]_vars

ListingStart ==
    /\ ListingInit /\ ScrapeIdle /\ LoginIdle /\ WorkTimesIdle
    /\ ExperienceIdle /\ OverviewIdle /\ ModelsIdle /\ CompanyUrlIdle
    /\ BrowserIdle
    /\ MigrateIdle
    /\ RetryIdle
    /\ ManualLoginIdle
    /\ SeleniumIdle
    /\ UniqueTextsIdle
SpecListing == ListingStart /\ [][ListingNext]_vars

\* _scrape_posts alone; a call that has started keeps running until it
\* returns
PostsStart ==
    /\ PostsInit /\ JobsIdle /\ ScrapeIdle /\ LoginIdle /\ WorkTimesIdle
    /\ ExperienceIdle /\ OverviewIdle /\ ModelsIdle /\ CompanyUrlIdle
    /\ BrowserIdle
    /\ MigrateIdle
    /\ RetryIdle
    /\ ManualLoginIdle
    /\ SeleniumIdle
    /\ UniqueTextsIdle
PostsNext == ScrollRound \/ ReturnPosts
SpecPostsFair == PostsStart /\ [][PostsNext]_vars /\ WF_vars(PostsNext)

BrowserStart ==
    /\ BrowserInit /\ ScrapeIdle /\ LoginIdle /\ WorkTimesIdle
    /\ ExperienceIdle /\ OverviewIdle /\ ModelsIdle /\ CompanyUrlIdle
    /\ ListingIdle
    /\ MigrateIdle
    /\ RetryIdle
    /\ ManualLoginIdle
    /\ SeleniumIdle
    /\ UniqueTextsIdle
SpecBrowser == BrowserStart /\ [][BrowserNext]_vars

MigrateStart ==
    /\ MigrateInit
    /\ ScrapeIdle /\ LoginIdle /\ WorkTimesIdle /\ ExperienceIdle
    /\ OverviewIdle /\ ModelsIdle /\ CompanyUrlIdle /\ ListingIdle
    /\ BrowserIdle
    /\ RetryIdle
    /\ ManualLoginIdle
    /\ SeleniumIdle
    /\ UniqueTextsIdle
SpecMigrate == MigrateStart /\ [][MigrateNext]_vars

RetryStart ==
    /\ RetryInit
    /\ ScrapeIdle /\ LoginIdle /\ WorkTimesIdle /\ ExperienceIdle
    /\ OverviewIdle /\ ModelsIdle /\ CompanyUrlIdle /\ ListingIdle
    /\ BrowserIdle /\ MigrateIdle
    /\ ManualLoginIdle
    /\ SeleniumIdle
    /\ UniqueTextsIdle
SpecRetry == RetryStart /\ [][RetryNext]_vars

ManualLoginStart ==
    /\ ManualLoginInit
    /\ ScrapeIdle /\ LoginIdle /\ WorkTimesIdle /\ ExperienceIdle
    /\ OverviewIdle /\ ModelsIdle /\ CompanyUrlIdle /\ ListingIdle
    /\ BrowserIdle /\ MigrateIdle /\ RetryIdle
    /\ SeleniumIdle
    /\ UniqueTextsIdle
SpecManualLoginFair ==
    ManualLoginStart /\ [][ManualLoginNext]_vars /\ WF_vars(ManualLoginNext)

SeleniumStart ==
    /\ SeleniumInit
    /\ ScrapeIdle /\ LoginIdle /\ WorkTimesIdle /\ ExperienceIdle
    /\ OverviewIdle /\ ModelsIdle /\ CompanyUrlIdle /\ ListingIdle
    /\ BrowserIdle /\ MigrateIdle /\ RetryIdle /\ ManualLoginIdle
    /\ UniqueTextsIdle
SpecSelenium == SeleniumStart /\ [][SeleniumNext]_vars

UniqueTextsStart ==
    /\ UniqueTextsInit
    /\ ScrapeIdle /\ LoginIdle /\ WorkTimesIdle /\ ExperienceIdle
    /\ OverviewIdle /\ ModelsIdle /\ CompanyUrlIdle /\ ListingIdle
    /\ BrowserIdle /\ MigrateIdle /\ RetryIdle /\ ManualLoginIdle
    /\ SeleniumIdle
SpecUniqueTexts == UniqueTextsStart /\ [][UniqueTextsNext]_vars

====
